---------------------------- MODULE Spec2Model ----------------------------
(***************************************************************************)
(* A model of inoliblist.py, the crawler that lists Arduino library        *)
(* repositories.  Two levels are modelled over one set of variables:       *)
(*                                                                         *)
(*   Spec      the crawl engine: get_github_api_response,                  *)
(*             get_contributor_count, check_rate_limiting and              *)
(*             get_json_from_url with its retry loop, one HTTP request     *)
(*             per step, the server's answers chosen by the environment.   *)
(*   SpecRows  the catalog builder: populate_row over the table.           *)
(***************************************************************************)
EXTENDS Integers, Sequences, FiniteSets, TLC

(***************************************************************************)
(* Bounds of the model.                                                    *)
(***************************************************************************)
\* largest value of an X-RateLimit-Remaining header / "remaining" field
MaxRemaining == 1
\* largest clock value (time.time()) and largest "reset" timestamp
MaxTime == 1
\* largest page number named by a Link header
MaxPage == 2
\* largest number of rows that populate_row adds to the table
MaxRows == 2

(***************************************************************************)
(* Configuration parameters of the program.                                *)
(***************************************************************************)
\* urlopen_maximum_retries, line 33
urlopen_maximum_retries == 5
\* urlopen_retry_on_http_error, line 29
urlopen_retry_on_http_error == {403, 502, 503}

\* the two keys of last_api_requests_remaining_value
Pools == {"search", "core"}

\* the statuses the server answers with: success, the three retried errors
\* and one error that is not retried
HttpStatuses == {200, 403, 404, 502, 503}

VARIABLES
    last_api_requests_remaining_value, \* the global of line 145
    now,                        \* time.time()
    op,                         \* the operation in progress
    pc,                         \* where the operation is
    api_type,                   \* check_rate_limiting's argument
    target,                     \* the URL the operation fetches after the check
    url,                        \* get_json_from_url: its (normalised) URL
    retry_count,                \* get_json_from_url: retry_count
    outcome,                    \* get_json_from_url: running, returned or the exception raised
    result,                     \* get_json_from_url: the dictionary returned
    response,                   \* the last HTTP response of this fetch, <<>> if none
    requests,                   \* urlopen calls made by this fetch
    retryable_failures,         \* responses of this fetch with a retried status
    sleeps,                     \* time.sleep(urlopen_retry_delay) calls of this fetch
    rate_limiting_reset_time,   \* check_rate_limiting: rate_limiting_reset_time
    entry_remaining,            \* cached value of api_type when check_rate_limiting was entered
    status_queries,             \* rate_limit fetches started by this check_rate_limiting call
    waited,                     \* this check_rate_limiting call went through the wait loop
    checked,                    \* pool of the check_rate_limiting call made since the last
                                \* quota-bearing request, "none" if there is none
    resumed,                    \* pool whose check_rate_limiting last returned from the wait
                                \* loop, with no successful response to a URL of that pool
                                \* and no answered status query for it since; "none" otherwise
    op_result,                  \* what the operation returned or raised
    table,                      \* the global of line 141: the heading row, then the rows
    occurrences,                \* per html_url: populate_row calls made with it, up to 2
    first_row,                  \* per html_url: <<row>> appended by the first call made with
                                \* it, <<>> if there was no call yet or it appended none
    appended_by,                \* per row of table: the html_url of the call that appended it
    search_pc,                  \* search_repositories: where the call is
    search_verify,              \* search_repositories: verify
    segments,                   \* search_repositories: created arguments not yet finished
    last_page,                  \* the number of pages of the segment's search results
    page_number,                \* search_repositories: page_number
    additional_pages,           \* search_repositories: additional_pages
    json_items,                 \* search_repositories: items of json_data not yet processed
    requested_pages,            \* page numbers requested for the segment, in order
    served,                     \* the items of the pages answered for the segment, in order
    passed,                     \* the items handed to populate_row for the segment, in order
    flf_pc,                     \* find_library_folder: where the call is
    flf_verify,                 \* find_library_folder: verify
    flf_repository,             \* the repository the call scans, as the server shows it
    flf_library_folder,             \* find_library_folder: flf_library_folder, <<>> for None
    flf_page_number,            \* find_library_folder: page_number
    flf_additional_pages,       \* find_library_folder: additional_pages
    root_directory_listing,     \* find_library_folder: the items the for loop of line 750
                                \* has not visited yet
    flf_root_directory_item,        \* find_library_folder: the folder being scanned
    flf_result,                 \* what find_library_folder returned, <<>> for None
    flf_requests,               \* the requests the call has made
    root_failure,               \* the exception of a root contents request of the call
    subfolder_failed,           \* a subfolder contents request of the call raised
    repeated_requests,          \* a contents request of the call asked for a page of a
                                \* listing that the call had requested before
    parse_pc,                   \* the metadata reader that was called, "idle" if none
    json_fetched,               \* parse_library_dot_json: how its fetch ended
    library_json,               \* parse_library_dot_json: json_data of the fetch
    json_return,                \* parse_library_dot_json: what the call did
    license_input,              \* get_repository_license: repository_object
    license_return,             \* get_repository_license: the string returned
    properties_file,            \* the lines of library.properties on the server
    properties_retry_count,     \* parse_library_dot_properties: retry_count
    properties_requests,        \* parse_library_dot_properties: urlopen calls made
    properties_retryable,       \* of these, answered with a status that is retried
    properties_status,          \* <<status>> of the last answer, <<>> before the first
    properties_return,          \* what the call returned, <<>> while it runs
    properties_row_list,        \* parse_library_dot_properties: row_list
    index_pc,                   \* process_library_manager_index: where the call is
    libraries,                  \* json_data["libraries"]: the entries the for loop of
                                \* line 488 has not visited yet
    last_repository_url,        \* process_library_manager_index: last_repository_url,
                                \* <<>> for ""
    index_response,             \* what the call of get_github_api_response for the
                                \* entry visited last did, "none" if none was made
    github_token,               \* the global of line 142, <<>> for None
    sent                        \* <<the request handed to urlopen last>>, <<>> if none

engine_vars == <<last_api_requests_remaining_value, now, op, pc, api_type, target, url,
                 retry_count, outcome, result, response, requests, retryable_failures,
                 sleeps, rate_limiting_reset_time, entry_remaining, status_queries,
                 waited, checked, resumed, op_result>>

catalog_vars == <<table, occurrences, first_row, appended_by>>

search_vars == <<search_pc, search_verify, segments, last_page, page_number,
                 additional_pages, json_items, requested_pages, served, passed>>

find_vars == <<flf_pc, flf_verify, flf_repository, flf_library_folder, flf_page_number,
               flf_additional_pages, root_directory_listing, flf_root_directory_item,
               flf_result, flf_requests, root_failure, subfolder_failed,
               repeated_requests>>

parse_vars == <<parse_pc, json_fetched, library_json, json_return, license_input,
                license_return, properties_file, properties_retry_count,
                properties_requests, properties_retryable, properties_status,
                properties_return, properties_row_list>>

index_vars == <<index_pc, libraries, last_repository_url, index_response>>

request_vars == <<github_token, sent>>

vars == <<engine_vars, catalog_vars, search_vars, find_vars, parse_vars, index_vars,
          request_vars>>

(***************************************************************************)
(* URLs.  A URL is its host and its path segments; the tests the program   *)
(* makes on URLs are prefix tests on the host and the first segment.       *)
(***************************************************************************)
ApiUrl(path) == [host |-> "api.github.com", path |-> path]

RateLimitUrl == ApiUrl(<<"rate_limit">>)

\* the requests get_github_api_response is called with
ApiRequests == { <<"search", "repositories">>,
                 <<"repos", "owner", "name">>,
                 <<"repos", "owner", "name", "contents">> }

ContributorsUrl == ApiUrl(<<"repos", "owner", "name", "contributors">>)

\* the URLs get_json_from_url is called with directly, outside the API
DirectUrls == { [host |-> "downloads.arduino.cc", path |-> <<"libraries", "library_index.json">>],
                [host |-> "raw.githubusercontent.com", path |-> <<"owner", "name", "master", "library.json">>] }

\* url.startswith("https://api.github.com")
IsApiUrl(u) == u.host = "api.github.com"

\* url.startswith("https://api.github.com/search")
IsSearchUrl(u) == IsApiUrl(u) /\ Len(u.path) > 0 /\ u.path[1] = "search"

\* the pool the API counts a request for u against
PoolOfUrl(u) == IF IsSearchUrl(u) THEN "search" ELSE "core"

\* the requests that use up the API request allotment: every API URL but rate_limit
QuotaBearing(u) == IsApiUrl(u) /\ u # RateLimitUrl

(***************************************************************************)
(* HTTP responses, as the environment chooses them.                        *)
(***************************************************************************)
NoResources == [p \in Pools |-> [remaining |-> 0, reset |-> 0]]

\* the body of a rate_limit response: json_data["resources"][api_type]
ResourcesBodies == [Pools -> [remaining : 0..MaxRemaining, reset : 0..MaxTime]]

\* empty: the decoded body is falsy ([] or {})
Bodies(u) == IF u = RateLimitUrl
             THEN { [empty |-> FALSE, resources |-> r] : r \in ResourcesBodies }
             ELSE { [empty |-> e, resources |-> NoResources] : e \in BOOLEAN }

NoBody == [empty |-> TRUE, resources |-> NoResources]

\* ratelimit: the X-RateLimit-Remaining header, <<>> when the response has none
\* link_next: the Link header has a rel="next" relation
\* link_last: the page of the Link header's rel="last" relation, 0 when it has none
RateLimitHeaders == {<<>>} \cup { <<n>> : n \in 0..MaxRemaining }

\* rate_limit is not a paginated endpoint: its responses carry no Link header
LinkNexts(u) == IF u = RateLimitUrl THEN {FALSE} ELSE BOOLEAN

LinkLasts(u) == IF u = RateLimitUrl THEN {0} ELSE 0..MaxPage

Responses(u) ==
    { [status |-> s, decodable |-> FALSE, json |-> NoBody, link_next |-> FALSE,
       link_last |-> 0, ratelimit |-> <<>>] : s \in HttpStatuses \ {200} }
    \cup
    { [status |-> 200, decodable |-> FALSE, json |-> NoBody, link_next |-> FALSE,
       link_last |-> 0, ratelimit |-> h] : h \in RateLimitHeaders }
    \cup
    { [status |-> 200, decodable |-> TRUE, json |-> b, link_next |-> n,
       link_last |-> l, ratelimit |-> h] :
         b \in Bodies(u), n \in LinkNexts(u), l \in LinkLasts(u), h \in RateLimitHeaders }

\* the values page_count takes: the int literals of lines 405 and 411, and
\* the str that parameter.split('=')[1] is at line 422; n is the number
\* the value denotes
IntValue(n) == [type |-> "int", n |-> n]

StrValue(n) == [type |-> "str", n |-> n]

NoResult == [json_data |-> NoBody, additional_pages |-> FALSE, page_count |-> IntValue(0)]

(***************************************************************************)
(* get_json_from_url, lines 362-438.                                       *)
(***************************************************************************)
\* line 376 with the bound taken one too low
RetryLoopConditionOneShort(count) == count < urlopen_maximum_retries

\* the loop condition of line 376
RetryLoopCondition(count) == count <= urlopen_maximum_retries

\* determine_urlopen_retry retrying whatever the error is
determine_urlopen_retry_every_error(status) == status # 200

\* determine_urlopen_retry, lines 441-463: whether the HTTPError is retried
\* (after a sleep); str(exception) starts with "HTTP Error <status>"
determine_urlopen_retry(status) == status \in urlopen_retry_on_http_error

\* lines 400-422: page_count and additional_pages of a decoded response
PageCount(resp) == IF resp.json.empty THEN IntValue(0)
                   ELSE IF resp.link_last # 0 THEN StrValue(resp.link_last)
                        ELSE IntValue(1)

AdditionalPages(resp) == ~resp.json.empty /\ resp.link_next

\* lines 424-430 without the test of line 427: every header goes to "core"
UpdateRemainingCoreOnly(cached, u, resp) ==
    IF IsApiUrl(u) /\ resp.ratelimit # <<>>
    THEN [cached EXCEPT !["core"] = resp.ratelimit[1]]
    ELSE cached

\* lines 424-430 without the test of the host at line 425
UpdateRemainingEveryHost(cached, u, resp) ==
    IF resp.ratelimit # <<>>
    THEN IF IsSearchUrl(u)
         THEN [cached EXCEPT !["search"] = resp.ratelimit[1]]
         ELSE [cached EXCEPT !["core"] = resp.ratelimit[1]]
    ELSE cached

\* lines 424-430: the cached counters after a decoded response to u
UpdateRemaining(cached, u, resp) ==
    IF IsApiUrl(u) /\ resp.ratelimit # <<>>
    THEN IF IsSearchUrl(u)
         THEN [cached EXCEPT !["search"] = resp.ratelimit[1]]
         ELSE [cached EXCEPT !["core"] = resp.ratelimit[1]]
    ELSE cached

\* lines 390-435 with the decode error swallowed and the request repeated
HandleResponseRetryingDecodeError(resp) ==
    IF resp.status = 200 /\ resp.decodable
    THEN /\ outcome' = "returned"
         /\ result' = [json_data |-> resp.json,
                       additional_pages |-> AdditionalPages(resp),
                       page_count |-> PageCount(resp)]
         /\ last_api_requests_remaining_value' =
                UpdateRemaining(last_api_requests_remaining_value, url, resp)
         /\ UNCHANGED <<sleeps, retryable_failures>>
    ELSE IF resp.status = 200 \/ determine_urlopen_retry(resp.status)
         THEN /\ sleeps' = sleeps + 1
              /\ retryable_failures' = IF resp.status = 200 THEN retryable_failures
                                       ELSE retryable_failures + 1
              /\ UNCHANGED <<outcome, result, last_api_requests_remaining_value>>
         ELSE /\ outcome' = "HTTPError"
              /\ UNCHANGED <<result, last_api_requests_remaining_value, sleeps,
                             retryable_failures>>

\* lines 390-435: what one response does to the fetch
\* a response that cannot be decoded raises JSONDecodeError (line 398)
HandleResponse(resp) ==
    IF resp.status = 200
    THEN IF resp.decodable
         THEN /\ outcome' = "returned"
              /\ result' = [json_data |-> resp.json,
                            additional_pages |-> AdditionalPages(resp),
                            page_count |-> PageCount(resp)]
              /\ last_api_requests_remaining_value' =
                     UpdateRemaining(last_api_requests_remaining_value, url, resp)
              /\ UNCHANGED <<sleeps, retryable_failures>>
         ELSE /\ outcome' = "JSONDecodeError"
              /\ UNCHANGED <<result, last_api_requests_remaining_value, sleeps,
                             retryable_failures>>
    ELSE IF determine_urlopen_retry(resp.status)
         THEN /\ sleeps' = sleeps + 1
              /\ retryable_failures' = retryable_failures + 1
              /\ UNCHANGED <<outcome, result, last_api_requests_remaining_value>>
         ELSE /\ outcome' = "HTTPError"
              /\ UNCHANGED <<result, last_api_requests_remaining_value, sleeps,
                             retryable_failures>>

Fetching == pc \in {"rate_limit_fetch", "get_json_from_url"} /\ outcome = "running"

\* one iteration of the loop of lines 376-435: one urlopen and its response
UrlOpen ==
    /\ Fetching
    /\ RetryLoopCondition(retry_count)
    /\ retry_count' = retry_count + 1
    /\ requests' = requests + 1
    /\ checked' = IF QuotaBearing(url) THEN "none" ELSE checked
    /\ \E resp \in Responses(url) :
          /\ response' = <<resp>>
          /\ HandleResponse(resp)
          /\ resumed' = IF IsApiUrl(url) /\ PoolOfUrl(url) = resumed /\ resp.status = 200
                        THEN "none" ELSE resumed
    /\ UNCHANGED <<now, op, pc, api_type, target, url, rate_limiting_reset_time,
                   entry_remaining, status_queries, waited, op_result>>

\* line 438: the loop ended without a return
RaiseTimeoutError ==
    /\ Fetching
    /\ ~RetryLoopCondition(retry_count)
    /\ outcome' = "TimeoutError"
    /\ UNCHANGED <<last_api_requests_remaining_value, now, op, pc, api_type, target, url,
                   retry_count, result, response, requests, retryable_failures, sleeps,
                   rate_limiting_reset_time, entry_remaining, status_queries, waited,
                   checked, resumed, op_result>>

\* the frame of a get_json_from_url(u) call at line 375
StartFetch(u) ==
    /\ url' = u
    /\ retry_count' = 0
    /\ outcome' = "running"
    /\ result' = NoResult
    /\ response' = <<>>
    /\ requests' = 0
    /\ retryable_failures' = 0
    /\ sleeps' = 0

\* the frame of get_json_from_url when no fetch is in progress
NoFetch ==
    /\ url' = RateLimitUrl
    /\ retry_count' = 0
    /\ outcome' = "none"
    /\ result' = NoResult
    /\ response' = <<>>
    /\ requests' = 0
    /\ retryable_failures' = 0
    /\ sleeps' = 0

(***************************************************************************)
(* The operations that fetch from the API.                                 *)
(***************************************************************************)
\* lines 307-310 with every request taken for a core request
ApiTypeAlwaysCore(request) == "core"

\* lines 307-310 of get_github_api_response
ApiTypeOfRequest(request) == IF request[1] = "search" THEN "search" ELSE "core"

\* get_github_api_response(request), lines 307-311: up to the call of
\* check_rate_limiting
CallGetGithubApiResponse ==
    /\ pc = "idle"
    /\ \E request \in ApiRequests :
          /\ api_type' = ApiTypeOfRequest(request)
          /\ target' = ApiUrl(request)
    /\ op' = "get_github_api_response"
    /\ pc' = "check_rate_limiting"
    /\ UNCHANGED <<last_api_requests_remaining_value, now, url, retry_count, outcome,
                   result, response, requests, retryable_failures, sleeps,
                   rate_limiting_reset_time, entry_remaining, status_queries, waited,
                   checked, resumed, op_result>>

\* get_contributor_count, lines 1017-1020: up to the call of check_rate_limiting
CallGetContributorCount ==
    /\ pc = "idle"
    /\ api_type' = "core"
    /\ target' = ContributorsUrl
    /\ op' = "get_contributor_count"
    /\ pc' = "check_rate_limiting"
    /\ UNCHANGED <<last_api_requests_remaining_value, now, url, retry_count, outcome,
                   result, response, requests, retryable_failures, sleeps,
                   rate_limiting_reset_time, entry_remaining, status_queries, waited,
                   checked, resumed, op_result>>

\* get_json_from_url called with no rate check: the Library Manager index
\* (line 198) and library.json (line 884)
CallGetJsonFromUrl ==
    /\ pc = "idle"
    /\ \E u \in DirectUrls :
          /\ target' = u
          /\ StartFetch(u)
    /\ op' = "get_json_from_url"
    /\ pc' = "get_json_from_url"
    /\ UNCHANGED <<last_api_requests_remaining_value, now, api_type,
                   rate_limiting_reset_time, entry_remaining, status_queries, waited,
                   checked, resumed, op_result>>

(***************************************************************************)
(* check_rate_limiting, lines 321-359.                                     *)
(***************************************************************************)
\* line 331 querying whatever the cached value is
MustQueryAlways(cached, pool) == cached[pool] >= 0

\* line 331: the cached value forces a status query
MustQuery(cached, pool) == cached[pool] = 0

\* lines 331-335: entry; either return at once or fetch rate_limit
CheckRateLimiting ==
    /\ pc = "check_rate_limiting"
    /\ entry_remaining' = last_api_requests_remaining_value[api_type]
    /\ checked' = api_type
    /\ waited' = FALSE
    /\ rate_limiting_reset_time' = 0
    /\ IF MustQuery(last_api_requests_remaining_value, api_type)
       THEN /\ pc' = "rate_limit_fetch"
            /\ status_queries' = 1
            /\ StartFetch(RateLimitUrl)
       ELSE /\ pc' = "get_json_from_url"
            /\ status_queries' = 0
            /\ StartFetch(target)
    /\ UNCHANGED <<last_api_requests_remaining_value, now, op, api_type, target,
                   resumed, op_result>>

\* line 343: the allowance is used up
AllowanceUsedUp(cached, pool) == cached[pool] = 0

\* lines 335-343: the rate_limit fetch returned; an exception of the fetch
\* leaves check_rate_limiting and its caller (lines 311 and 1020 are outside
\* any try)
RateLimitFetched ==
    /\ pc = "rate_limit_fetch"
    /\ outcome \notin {"running", "none"}
    /\ IF outcome = "returned"
       THEN LET json_data == result.json_data.resources[api_type]
                cached == [last_api_requests_remaining_value
                               EXCEPT ![api_type] = json_data.remaining]
            IN /\ last_api_requests_remaining_value' = cached
               /\ rate_limiting_reset_time' = json_data.reset
               /\ IF AllowanceUsedUp(cached, api_type)
                  THEN /\ pc' = "rate_limit_wait"
                       /\ waited' = TRUE
                       /\ NoFetch
                  ELSE /\ pc' = "get_json_from_url"
                       /\ StartFetch(target)
                       /\ UNCHANGED waited
               /\ resumed' = IF resumed = api_type THEN "none" ELSE resumed
               /\ UNCHANGED op_result
       ELSE /\ pc' = "done"
            /\ op_result' = [raised |-> outcome, value |-> <<>>]
            /\ NoFetch
            /\ UNCHANGED <<last_api_requests_remaining_value, rate_limiting_reset_time,
                           waited, resumed>>
    /\ UNCHANGED <<now, op, api_type, target, entry_remaining, status_queries, checked>>

\* line 350 with a loop that is never entered
WaitLoopConditionNever(time, reset) == time < 0

\* line 350: the condition of the wait loop
WaitLoopCondition(time, reset) == time < reset

\* lines 358-359 had the counter been set to a positive value after the wait
RemainingAfterWaitPositive(cached, pool) == [cached EXCEPT ![pool] = 1]

\* lines 358-359: the cached counters when the wait is over; the value of the
\* pool is left at 0
RemainingAfterWait(cached, pool) == cached

\* lines 350-359: the wait loop ends and check_rate_limiting returns
RateLimitWaitOver ==
    /\ pc = "rate_limit_wait"
    /\ ~WaitLoopCondition(now, rate_limiting_reset_time)
    /\ last_api_requests_remaining_value' =
           RemainingAfterWait(last_api_requests_remaining_value, api_type)
    /\ resumed' = api_type
    /\ pc' = "get_json_from_url"
    /\ StartFetch(target)
    /\ UNCHANGED <<now, op, api_type, target, rate_limiting_reset_time, entry_remaining,
                   status_queries, waited, checked, op_result>>

\* get_contributor_count, lines 1023-1032: the fetch's outcome as the
\* operation's; HTTPError is not caught.  value is the string returned:
\* <<n>> is the decimal numeral of n, which str() makes of the int n and of
\* the str that holds the numeral alike, and <<>> is ""
ContributorCountResult(fetched, fetch_result) ==
    IF fetched = "returned"
    THEN [raised |-> "none", value |-> <<fetch_result.page_count.n>>]
    ELSE IF fetched \in {"JSONDecodeError", "TimeoutError"}
         THEN [raised |-> "none", value |-> <<>>]
         ELSE [raised |-> fetched, value |-> <<>>]

\* get_github_api_response, line 313, and the direct calls: the fetch's
\* outcome is the operation's
FetchResult(fetched, fetch_result) ==
    IF fetched = "returned"
    THEN [raised |-> "none", value |-> <<fetch_result.page_count.n>>]
    ELSE [raised |-> fetched, value |-> <<>>]

\* the fetch of the operation ended: the operation returns or raises
OperationReturns ==
    /\ pc = "get_json_from_url"
    /\ outcome \notin {"running", "none"}
    /\ op_result' = IF op = "get_contributor_count"
                    THEN ContributorCountResult(outcome, result)
                    ELSE FetchResult(outcome, result)
    /\ pc' = "done"
    /\ UNCHANGED <<last_api_requests_remaining_value, now, op, api_type, target, url,
                   retry_count, outcome, result, response, requests, retryable_failures,
                   sleeps, rate_limiting_reset_time, entry_remaining, status_queries,
                   waited, checked, resumed>>

NoOpResult == [raised |-> "none", value |-> <<>>]

\* the caller takes the operation's result and the frames of the operation are
\* gone; the next operation can start
OperationDone ==
    /\ pc = "done"
    /\ pc' = "idle"
    /\ op' = "none"
    /\ op_result' = NoOpResult
    /\ NoFetch
    /\ api_type' = "core"
    /\ target' = RateLimitUrl
    /\ rate_limiting_reset_time' = 0
    /\ entry_remaining' = 0
    /\ status_queries' = 0
    /\ waited' = FALSE
    /\ UNCHANGED <<last_api_requests_remaining_value, now, checked, resumed>>

\* time passes
Tick ==
    /\ now < MaxTime
    /\ now' = now + 1
    /\ UNCHANGED <<last_api_requests_remaining_value, op, pc, api_type, target, url,
                   retry_count, outcome, result, response, requests, retryable_failures,
                   sleeps, rate_limiting_reset_time, entry_remaining, status_queries,
                   waited, checked, resumed, op_result>>


(***************************************************************************)
(* Strings.  A string is the sequence of its characters; the words that    *)
(* the program compares as a whole ("library", "examples", ...) are single *)
(* elements.                                                               *)
(***************************************************************************)
\* the characters str.strip() removes
Whitespace == {" ", "\t", "\n", "\r"}

\* cell.replace('\t', "    "), line 619
RECURSIVE ReplaceTabs(_)
ReplaceTabs(str) ==
    IF str = <<>> THEN <<>>
    ELSE (IF Head(str) = "\t" THEN <<" ", " ", " ", " ">> ELSE <<Head(str)>>)
         \o ReplaceTabs(Tail(str))

RECURSIVE LStrip(_)
LStrip(str) ==
    IF str # <<>> /\ Head(str) \in Whitespace THEN LStrip(Tail(str)) ELSE str

RECURSIVE RStrip(_)
RStrip(str) ==
    IF str # <<>> /\ str[Len(str)] \in Whitespace
    THEN RStrip(SubSeq(str, 1, Len(str) - 1)) ELSE str

\* str.strip()
Strip(str) == RStrip(LStrip(str))

\* line 619 without the replace
SanitizeCellStripOnly(cell) == Strip(cell)

\* line 619: cell.replace('\t', "    ").strip()
SanitizeCell(cell) == Strip(ReplaceTabs(cell))

\* str.endswith(suffix)
EndsWith(str, suffix) ==
    /\ Len(str) >= Len(suffix)
    /\ SubSeq(str, Len(str) - Len(suffix) + 1, Len(str)) = suffix

\* len(str.split('.')) > 1
HasDot(str) == \E i \in 1..Len(str) : str[i] = "."

\* str(True), str(False)
StrBool(b) == IF b THEN <<"T", "r", "u", "e">> ELSE <<"F", "a", "l", "s", "e">>

\* str(n) of a one-digit number
StrInt(n) == <<(<<"0", "1", "2", "3", "4", "5", "6", "7", "8", "9">>)[n + 1]>>

(***************************************************************************)
(* Rows.  The columns of class Column that the model keeps.                *)
(***************************************************************************)
Columns == {"repository_url", "library_path", "contributor_count",
            "repository_description", "in_library_manager_index",
            "library_manager_name", "platformio_name", "platformio_authors",
            "platformio_repository", "platformio_frameworks", "platformio_platforms"}

\* [""] * Column.count, line 576
BlankRow == [c \in Columns |-> <<>>]

\* initialize_table, lines 249-286: the title of each column
ColumnTitle ==
    [c \in Columns |->
        CASE c = "repository_url" -> "Repository URL"
          [] c = "library_path" -> "Library Path"
          [] c = "contributor_count" -> "#Contributors"
          [] c = "repository_description" -> "Repo Description"
          [] c = "in_library_manager_index" -> "In Library Manager"
          [] c = "library_manager_name" -> "LM name"
          [] c = "platformio_name" -> "PIO name"
          [] c = "platformio_authors" -> "PIO authors"
          [] c = "platformio_repository" -> "PIO repository"
          [] c = "platformio_frameworks" -> "PIO frameworks"
          [] c = "platformio_platforms" -> "PIO platforms"]

\* initialize_table, lines 242-286: the heading text of every column is its
\* title followed by " \x1b \x1b" (ESC is the character \x1b)
HeadingRow == [c \in Columns |-> <<ColumnTitle[c], " ", "ESC", " ", "ESC">>]

(***************************************************************************)
(* find_library_folder, lines 632-810, for a repository whose directory    *)
(* listings have one page each and whose subfolder listings are answered.  *)
(* A repository as the server shows it:                                    *)
(*   properties_at, json_at  the folders whose library.properties /        *)
(*                           library.json can be fetched                   *)
(*   json_decodable          whether library.json is JSON                  *)
(*   root_error              the exception of the root contents request,   *)
(*                           "none" when it is answered                    *)
(*   root                    the root listing                              *)
(*   listing                 the listing of each folder of the root        *)
(***************************************************************************)
File(name) == [type |-> "file", name |-> name]

Dir(name) == [type |-> "dir", name |-> name]

\* lines 700-705 and 787-792
IsHeaderFile(item) ==
    /\ item.type = "file"
    /\ HasDot(item.name)
    /\ \/ EndsWith(item.name, <<".", "h">>)
       \/ EndsWith(item.name, <<".", "h", "h">>)
       \/ EndsWith(item.name, <<".", "h", "p", "p">>)

\* lines 711-715
IsSketchFile(item) ==
    /\ item.type = "file"
    /\ HasDot(item.name)
    /\ \/ EndsWith(item.name, <<".", "i", "n", "o">>)
       \/ EndsWith(item.name, <<".", "p", "d", "e">>)

\* lines 718-725
IsExamplesFolder(item) ==
    /\ item.type = "dir"
    /\ item.name \in {<<"examples">>, <<"example">>, <<"Examples">>, <<"Example">>,
                      <<"EXAMPLES">>, <<"EXAMPLE">>}

\* parse_library_dot_properties, lines 813-865: whether the file was read, and
\* the row with the value of its name line
ParseLibraryDotProperties(repo, metadata_folder, row_list) ==
    IF metadata_folder \in repo.properties_at
    THEN [found |-> TRUE,
          row_list |-> [row_list EXCEPT !.library_manager_name = repo.properties_name]]
    ELSE [found |-> FALSE, row_list |-> row_list]

\* parse_library_dot_json, lines 868-991: found also when the file is not JSON
ParseLibraryDotJson(repo, metadata_folder, row_list) ==
    IF metadata_folder \in repo.json_at
    THEN [found |-> TRUE,
          row_list |-> IF repo.json_decodable
                       THEN [row_list EXCEPT !.platformio_name = repo.json_name]
                       ELSE row_list]
    ELSE [found |-> FALSE, row_list |-> row_list]

\* a result that names a path below the folder
FoundAtPathBelow(folder, row_list) ==
    [library_folder |-> <<folder \o <<"/">> \o folder>>, row_list |-> row_list]

\* find_library_folder's result: library_folder is <<>> for None, else <<folder>>
NotFound(row_list) == [library_folder |-> <<>>, row_list |-> row_list]

FoundAt(folder, row_list) == [library_folder |-> <<folder>>, row_list |-> row_list]

\* lines 784-805: the items of one subfolder listing, in order
RECURSIVE ScanSubdirectoryListing(_, _, _, _)
ScanSubdirectoryListing(repo, folder, items, acc) ==
    IF items = <<>> THEN acc
    ELSE LET subdirectory_item == Head(items)
             next ==
                 IF IsHeaderFile(subdirectory_item)
                 THEN FoundAt(folder, acc.row_list)
                 ELSE IF subdirectory_item = File(<<"library", ".", "properties">>)
                 THEN FoundAt(folder,
                              ParseLibraryDotProperties(repo, folder, acc.row_list).row_list)
                 ELSE IF subdirectory_item = File(<<"library", ".", "json">>)
                 THEN FoundAt(folder,
                              ParseLibraryDotJson(repo, folder, acc.row_list).row_list)
                 ELSE acc
         IN ScanSubdirectoryListing(repo, folder, Tail(items), next)

\* lines 750-808: the folders of the root listing, in order; the first one
\* in which a library is detected is returned
RECURSIVE ScanSubfolders(_, _, _)
ScanSubfolders(repo, items, row_list) ==
    IF items = <<>> THEN NotFound(row_list)
    ELSE LET root_directory_item == Head(items)
         IN IF root_directory_item.type = "dir" /\ Head(root_directory_item.name) # "."
            THEN LET scanned == ScanSubdirectoryListing(
                                    repo, root_directory_item.name,
                                    repo.listing[root_directory_item.name],
                                    NotFound(row_list))
                 IN IF scanned.library_folder # <<>>
                    THEN scanned
                    ELSE ScanSubfolders(repo, Tail(items), scanned.row_list)
            ELSE ScanSubfolders(repo, Tail(items), row_list)

\* the verification of lines 734-744 with the examples folder not looked at
VerificationPassedWithoutSketch(header_file_in_root, sketch_file_in_root, examples_folder_in_root) ==
    header_file_in_root /\ ~sketch_file_in_root

\* lines 734-744: the verification of the root folder
VerificationPassed(header_file_in_root, sketch_file_in_root, examples_folder_in_root) ==
    ~(~header_file_in_root
      \/ (header_file_in_root /\ sketch_file_in_root /\ ~examples_folder_in_root))

\* lines 694-810: the decision on an answered root listing
ScanRoot(repo, row_list, verify) ==
    LET items == repo.root
        header_file_in_root == \E i \in 1..Len(items) : IsHeaderFile(items[i])
        sketch_file_in_root == verify /\ \E i \in 1..Len(items) : IsSketchFile(items[i])
        examples_folder_in_root ==
            verify /\ \E i \in 1..Len(items) : IsExamplesFolder(items[i])
    IN IF verify
       THEN IF VerificationPassed(header_file_in_root, sketch_file_in_root,
                                  examples_folder_in_root)
            THEN FoundAt(<<"/">>, row_list)
            ELSE NotFound(row_list)
       ELSE IF header_file_in_root
            THEN FoundAt(<<"/">>, row_list)
            ELSE ScanSubfolders(repo, items, row_list)

\* find_library_folder, lines 644-810
FindLibraryFolder(repo, row_list, verify) ==
    LET properties == ParseLibraryDotProperties(repo, <<"/">>, row_list)
        json == ParseLibraryDotJson(repo, <<"/">>, properties.row_list)
    IN IF properties.found \/ json.found
       THEN FoundAt(<<"/">>, json.row_list)
       ELSE IF repo.root_error # "none"
            THEN NotFound(json.row_list)
            ELSE ScanRoot(repo, json.row_list, verify)

(***************************************************************************)
(* populate_row, lines 556-629, the whole call in one step.                *)
(***************************************************************************)
\* the repository objects populate_row is called with: html_url, and
\* description, <<>> for null and <<text>> otherwise
RepositoryObjects ==
    { [html_url |-> <<"a">>, description |-> <<>>],
      [html_url |-> <<"b">>, description |-> << <<"\t", "d", "\t", "e", " ">> >>],
      [html_url |-> <<" ", "a">>, description |-> <<>>] }

HtmlUrls == { r.html_url : r \in RepositoryObjects }

FolderNames == { <<".", "g">>, <<"s", "r", "c">> }

\* a repository with no file in it
BareRepository ==
    [properties_at |-> {}, properties_name |-> <<"L">>,
     json_at |-> {}, json_decodable |-> TRUE, json_name |-> <<"P">>,
     root_error |-> "none", root |-> <<>>,
     listing |-> [n \in FolderNames |-> <<>>]]

\* the repositories as the server shows them: "a" is empty (its contents
\* request is answered 404), "b" has a library in the second folder of its
\* root, " a" has library.properties in its root
Repositories ==
    [u \in HtmlUrls |->
        IF u = <<"a">> THEN [BareRepository EXCEPT !.root_error = "HTTPError"]
        ELSE IF u = <<"b">>
        THEN [BareRepository EXCEPT
                !.root = <<Dir(<<".", "g">>), Dir(<<"s", "r", "c">>)>>,
                !.listing = [n \in FolderNames |->
                               IF n = <<".", "g">> THEN <<File(<<"a", ".", "h">>)>>
                               ELSE <<File(<<"library", ".", "json">>)>>],
                !.json_at = {<<"s", "r", "c">>}]
        ELSE [BareRepository EXCEPT !.properties_at = {<<"/">>}]]

\* what the call of get_contributor_count at line 602 returns or raises: the
\* outcomes of its fetch, and the exceptions of its check_rate_limiting call
ContributorOutcomes ==
    { ContributorCountResult(f, [NoResult EXCEPT !.page_count = IntValue(1)]) :
        f \in {"returned", "HTTPError", "JSONDecodeError", "TimeoutError"} }

\* the arguments populate_row is called with at lines 498-500 and, through
\* search_repositories, at lines 208, 222 and 239
PopulateRowCalls ==
    { [in_library_manager |-> TRUE, verify |-> FALSE],
      [in_library_manager |-> FALSE, verify |-> FALSE],
      [in_library_manager |-> FALSE, verify |-> TRUE] }

\* the duplicate test of lines 569-573 with no row ever found
IsOnTheListNever(tbl, repository_object) == FALSE

\* lines 569-573: a row has the URL of the repository object
IsOnTheList(tbl, repository_object) ==
    \E i \in 1..Len(tbl) : tbl[i].repository_url = repository_object.html_url

\* lines 587-611: the cells populate_row fills in
FillRow(row_list, library_folder, repository_object, in_library_manager, contributor_count) ==
    [row_list EXCEPT
       !.library_path = library_folder,
       !.repository_url = repository_object.html_url,
       !.contributor_count = contributor_count,
       !.repository_description = IF repository_object.description # <<>>
                                  THEN repository_object.description[1] ELSE @,
       !.in_library_manager_index = StrBool(in_library_manager)]

\* lines 618-619 left out: the row goes to the table as it was filled
SanitizeRowSkipped(row_list) == row_list

\* lines 618-619
SanitizeRow(row_list) == [c \in Columns |-> SanitizeCell(row_list[c])]

\* populate_row: what the call does, and the row it appends
PopulateRowOutcome(tbl, repository_object, in_library_manager, verify, repo, contributor) ==
    IF IsOnTheList(tbl, repository_object)
    THEN [status |-> "duplicate", row |-> BlankRow]
    ELSE LET found == FindLibraryFolder(repo, BlankRow, verify)
             library_folder == IF found.library_folder = <<>> THEN <<>>
                               ELSE found.library_folder[1]
         IN IF found.library_folder = <<>> /\ verify
            THEN [status |-> "skipped", row |-> BlankRow]
            ELSE IF contributor.raised # "none"
                 THEN [status |-> "raised", row |-> BlankRow]
                 ELSE [status |-> "appended",
                       row |-> SanitizeRow(FillRow(found.row_list, library_folder,
                                                   repository_object, in_library_manager,
                                                   IF contributor.value = <<>> THEN <<>>
                                                   ELSE StrInt(contributor.value[1])))]

\* line 629: table.append(row_list), with the last row overwritten instead
AppendRowOverLast(tbl, row_list) == [tbl EXCEPT ![Len(tbl)] = row_list]

\* line 629: table.append(row_list)
AppendRow(tbl, row_list) == Append(tbl, row_list)

\* a call of populate_row with the given arguments and the given answer to
\* its contributors request; every call but that for a duplicate makes core
\* API requests, whose last X-RateLimit-Remaining header is the cached value
PopulateRowStep(repository_object, in_library_manager, verify, contributor, remaining) ==
    LET done == PopulateRowOutcome(table, repository_object, in_library_manager, verify,
                                   Repositories[repository_object.html_url], contributor)
        html_url == repository_object.html_url
    IN /\ table' = IF done.status = "appended" THEN AppendRow(table, done.row)
                   ELSE table
       /\ appended_by' = IF done.status = "appended"
                         THEN Append(appended_by, html_url) ELSE appended_by
       /\ occurrences' = [occurrences EXCEPT
                            ![html_url] = IF @ < 2 THEN @ + 1 ELSE @]
       /\ first_row' = IF occurrences[html_url] = 0 /\ done.status = "appended"
                       THEN [first_row EXCEPT ![html_url] = <<done.row>>]
                       ELSE first_row
       /\ last_api_requests_remaining_value' =
              IF done.status = "duplicate"
              THEN last_api_requests_remaining_value
              ELSE [last_api_requests_remaining_value EXCEPT !["core"] = remaining]
       /\ UNCHANGED <<now, op, pc, api_type, target, url, retry_count, outcome, result,
                      response, requests, retryable_failures, sleeps,
                      rate_limiting_reset_time, entry_remaining, status_queries, waited,
                      checked, resumed, op_result>>

\* a call of populate_row
PopulateRow ==
    /\ Len(table) <= MaxRows
    /\ \E repository_object \in RepositoryObjects, call \in PopulateRowCalls,
          contributor \in ContributorOutcomes, remaining \in 0..MaxRemaining :
          PopulateRowStep(repository_object, call.in_library_manager, call.verify,
                          contributor, remaining)

(***************************************************************************)
(* search_repositories, lines 504-553.                                     *)
(***************************************************************************)
\* the lengths of created_argument_list
SegmentCounts == {1, 2}

\* the items a page of search results can hold
SearchResultPages ==
    LET object(u) == CHOOSE r \in RepositoryObjects : r.html_url = u
    IN { <<>>,
         <<object(<<"b">>)>>,
         <<object(<<" ", "a">>), object(<<"a">>)>> }

\* what get_github_api_response raises (lines 294-318 raise what
\* check_rate_limiting and get_json_from_url raise)
ApiExceptions == {"HTTPError", "JSONDecodeError", "TimeoutError"}

\* line 518 with the page counter never advanced
NextPageNumberStuck(page) == page

\* line 531: page_number += 1
NextPageNumber(page) == page + 1

\* lines 514-518: the next created argument is taken up
StartSegment ==
    /\ page_number' = 1
    /\ additional_pages' = TRUE
    /\ json_items' = <<>>
    /\ requested_pages' = <<>>
    /\ served' = <<>>
    /\ passed' = <<>>
    /\ \E n \in 1..MaxPage : last_page' = n

SearchRepositories ==
    /\ search_pc = "idle"
    /\ \E verify \in BOOLEAN, n \in SegmentCounts :
          /\ search_verify' = verify
          /\ segments' = n
    /\ search_pc' = "page"
    /\ StartSegment
    /\ UNCHANGED <<engine_vars, catalog_vars, find_vars, parse_vars, index_vars, request_vars>>

\* lines 519-531: one pass of the while loop up to the for loop; the request
\* is answered with a page of results, or raises
SearchPage ==
    /\ search_pc = "page"
    /\ additional_pages
    /\ requested_pages' = Append(requested_pages, page_number)
    /\ \/ \E page_items \in SearchResultPages :
             /\ json_items' = page_items
             /\ served' = served \o page_items
             /\ additional_pages' = (page_number < last_page)
             /\ page_number' = NextPageNumber(page_number)
             /\ search_pc' = "items"
       \/ \E exception \in ApiExceptions :
             /\ search_pc' = exception
             /\ UNCHANGED <<json_items, served, additional_pages, page_number>>
    /\ UNCHANGED <<search_verify, segments, last_page, passed>>
    /\ UNCHANGED <<engine_vars, catalog_vars, find_vars, parse_vars, index_vars, request_vars>>

\* lines 532-543: one pass of the for loop; an exception of populate_row
\* leaves search_repositories
SearchItem ==
    /\ search_pc = "items"
    /\ json_items # <<>>
    /\ passed' = Append(passed, Head(json_items))
    /\ json_items' = Tail(json_items)
    /\ \E contributor \in ContributorOutcomes, remaining \in 0..MaxRemaining :
          /\ PopulateRowStep(Head(json_items), FALSE, search_verify, contributor, remaining)
          /\ search_pc' =
                IF PopulateRowOutcome(table, Head(json_items), FALSE, search_verify,
                                      Repositories[Head(json_items).html_url],
                                      contributor).status = "raised"
                THEN contributor.raised ELSE "items"
    /\ UNCHANGED <<search_verify, segments, last_page, page_number, additional_pages,
                   requested_pages, served>>
    /\ UNCHANGED <<find_vars, parse_vars, index_vars, request_vars>>

\* the for loop is over: back to the test of the while loop
SearchPageDone ==
    /\ search_pc = "items"
    /\ json_items = <<>>
    /\ search_pc' = "page"
    /\ UNCHANGED <<search_verify, segments, last_page, page_number, additional_pages,
                   json_items, requested_pages, served, passed>>
    /\ UNCHANGED <<engine_vars, catalog_vars, find_vars, parse_vars, index_vars, request_vars>>

\* lines 545-553: the while loop is over; the next created argument, or return
SearchSegmentDone ==
    /\ search_pc = "page"
    /\ ~additional_pages
    /\ segments' = segments - 1
    /\ IF segments > 1
       THEN /\ search_pc' = "page"
            /\ StartSegment
       ELSE /\ search_pc' = "returned"
            /\ UNCHANGED <<last_page, page_number, additional_pages, json_items,
                           requested_pages, served, passed>>
    /\ UNCHANGED search_verify
    /\ UNCHANGED <<engine_vars, catalog_vars, find_vars, parse_vars, index_vars, request_vars>>

(***************************************************************************)
(* find_library_folder, lines 632-810, request by request, for a           *)
(* repository whose directory listings may have several pages and whose    *)
(* contents requests may fail.  A repository as the server shows it:       *)
(*   properties_root, json_root  library.properties / library.json can be  *)
(*                               fetched from the root                     *)
(*   root_pages                  the pages of the root listing             *)
(*   listing_pages               the pages of the listing of each folder   *)
(***************************************************************************)
HeaderFile == File(<<"a", ".", "h">>)

SketchFile == File(<<"a", ".", "i", "n", "o">>)

OtherFile == File(<<"r">>)

ExamplesFolder == Dir(<<"examples">>)

HiddenFolder == Dir(<<".", "g">>)

FooFolder == Dir(<<"f", "o", "o">>)

BarFolder == Dir(<<"b", "a", "r">>)

\* the folders whose listing the model gives
ListedFolders == {ExamplesFolder.name, HiddenFolder.name, FooFolder.name, BarFolder.name}

\* root listings: on one page, every combination of a header file, a sketch
\* and an examples folder, and folders in several orders; and on two pages
RootListings ==
    { << <<>> >>,
      << <<HeaderFile>> >>,
      << <<SketchFile>> >>,
      << <<ExamplesFolder>> >>,
      << <<HeaderFile, SketchFile>> >>,
      << <<HeaderFile, ExamplesFolder>> >>,
      << <<SketchFile, ExamplesFolder>> >>,
      << <<HeaderFile, SketchFile, ExamplesFolder>> >>,
      << <<FooFolder>> >>,
      << <<HiddenFolder, FooFolder>> >>,
      << <<BarFolder, FooFolder>> >>,
      << <<FooFolder, BarFolder>> >>,
      << <<SketchFile, FooFolder>> >>,
      << <<FooFolder>>, <<HeaderFile>> >>,
      << <<SketchFile>>, <<HeaderFile>> >>,
      << <<SketchFile>>, <<FooFolder>> >>,
      << <<BarFolder>>, <<FooFolder>> >> }

\* listings of the folder foo
FooListings ==
    { << <<HeaderFile>> >>,
      << <<OtherFile>> >>,
      << <<OtherFile, File(<<"library", ".", "properties">>)>> >>,
      << <<File(<<"library", ".", "json">>)>> >>,
      << <<OtherFile>>, <<HeaderFile>> >> }

\* listings of the folder bar
BarListings ==
    { << <<HeaderFile>> >>,
      << <<OtherFile>> >> }

PagedRepositories ==
    { [properties_root |-> d[1], json_root |-> d[2],
       root_pages |-> << <<HeaderFile>> >>,
       listing_pages |-> [n \in ListedFolders |-> << <<>> >>]] :
         d \in {<<TRUE, FALSE>>, <<FALSE, TRUE>>, <<TRUE, TRUE>>} }
    \cup
    { [properties_root |-> FALSE, json_root |-> FALSE,
       root_pages |-> root,
       listing_pages |-> [n \in ListedFolders |->
                            IF n = FooFolder.name THEN foo
                            ELSE IF n = BarFolder.name THEN bar
                            ELSE << <<>> >>]] :
         root \in RootListings, foo \in FooListings, bar \in BarListings }

NoRepository ==
    [properties_root |-> FALSE, json_root |-> FALSE, root_pages |-> << <<>> >>,
     listing_pages |-> [n \in ListedFolders |-> << <<>> >>]]

\* the requests find_library_folder makes
PropertiesRequest(folder) == [kind |-> "properties", folder |-> folder, page |-> 0]

JsonRequest(folder) == [kind |-> "json", folder |-> folder, page |-> 0]

ContentsRequest(folder, page) == [kind |-> "contents", folder |-> folder, page |-> page]

\* the items of a page of a listing; a page after the last one is empty
PageItems(pages, page) == IF page <= Len(pages) THEN pages[page] ELSE <<>>

\* additional_pages of the answer: a rel="next" link follows all but the last
PageHasNext(pages, page) == page < Len(pages)

\* lines 660-662 with library.json left out of the decision
RootDescriptorFoundPropertiesOnly(properties_found, json_found) == properties_found

\* lines 646-662: a metadata file was found in the root
RootDescriptorFound(properties_found, json_found) == properties_found \/ json_found

\* lines 675-686 with the JSON decode error not caught
RootFailureRaisingDecodeError(exception) ==
    IF exception = "JSONDecodeError" THEN "raised" ELSE "returned"

\* lines 675-686: every exception of the root contents request is caught and
\* None returned
RootFailure(exception) == "returned"

\* lines 728-749 with no regard to verify
RootDecisionHeaderOnly(verify, listing) ==
    IF \E i \in 1..Len(listing) : IsHeaderFile(listing[i])
    THEN "accept" ELSE "subfolders"

\* lines 694-749: what the listing of the root makes of the repository
RootDecision(verify, listing) ==
    LET header_file_in_root == \E i \in 1..Len(listing) : IsHeaderFile(listing[i])
        sketch_file_in_root == verify /\ \E i \in 1..Len(listing) : IsSketchFile(listing[i])
        examples_folder_in_root ==
            verify /\ \E i \in 1..Len(listing) : IsExamplesFolder(listing[i])
    IN IF verify
       THEN IF VerificationPassed(header_file_in_root, sketch_file_in_root,
                                  examples_folder_in_root)
            THEN "accept" ELSE "reject"
       ELSE IF header_file_in_root THEN "accept" ELSE "subfolders"

\* lines 785-805: the metadata requests made for the items of a subfolder page
SubfolderMetadataRequests(folder, listing) ==
    { PropertiesRequest(folder) :
        i \in { k \in 1..Len(listing) :
                  /\ ~IsHeaderFile(listing[k])
                  /\ listing[k] = File(<<"library", ".", "properties">>) } }
    \cup
    { JsonRequest(folder) :
        i \in { k \in 1..Len(listing) :
                  /\ ~IsHeaderFile(listing[k])
                  /\ listing[k] = File(<<"library", ".", "json">>) } }

\* lines 784-805 with the metadata files parsed but not taken for a library
SubfolderHasLibraryHeaderOnly(listing) ==
    \E i \in 1..Len(listing) : IsHeaderFile(listing[i])

\* lines 784-805: the page shows a library
SubfolderHasLibrary(listing) ==
    \E i \in 1..Len(listing) :
        \/ IsHeaderFile(listing[i])
        \/ listing[i] = File(<<"library", ".", "properties">>)
        \/ listing[i] = File(<<"library", ".", "json">>)

FindReturns(value) ==
    /\ flf_pc' = "returned"
    /\ flf_result' = value

\* find_library_folder is called
FindLibraryFolderCalled ==
    /\ flf_pc = "idle"
    /\ \E verify \in BOOLEAN, repo \in PagedRepositories :
          /\ flf_verify' = verify
          /\ flf_repository' = repo
    /\ flf_pc' = "properties"
    /\ flf_library_folder' = <<>>
    /\ UNCHANGED <<flf_page_number, flf_additional_pages, root_directory_listing,
                   flf_root_directory_item, flf_result, flf_requests, root_failure,
                   subfolder_failed>>
    /\ UNCHANGED repeated_requests
    /\ UNCHANGED <<engine_vars, catalog_vars, search_vars, parse_vars, index_vars, request_vars>>

\* lines 646-652
ParseRootProperties ==
    /\ flf_pc = "properties"
    /\ flf_requests' = flf_requests \cup {PropertiesRequest(<<"/">>)}
    /\ flf_library_folder' = IF flf_repository.properties_root THEN << <<"/">> >>
                         ELSE flf_library_folder
    /\ flf_pc' = "json"
    /\ UNCHANGED <<flf_verify, flf_repository, flf_page_number, flf_additional_pages,
                   root_directory_listing, flf_root_directory_item, flf_result, root_failure,
                   subfolder_failed>>
    /\ UNCHANGED repeated_requests
    /\ UNCHANGED <<engine_vars, catalog_vars, search_vars, parse_vars, index_vars, request_vars>>

\* lines 654-666
ParseRootJson ==
    /\ flf_pc = "json"
    /\ flf_requests' = flf_requests \cup {JsonRequest(<<"/">>)}
    /\ IF RootDescriptorFound(flf_library_folder # <<>>, flf_repository.json_root)
       THEN /\ flf_library_folder' = << <<"/">> >>
            /\ FindReturns(<< <<"/">> >>)
            /\ UNCHANGED <<flf_page_number, flf_additional_pages>>
       ELSE /\ flf_page_number' = 1
            /\ flf_additional_pages' = TRUE
            /\ flf_pc' = "root"
            /\ UNCHANGED <<flf_library_folder, flf_result>>
    /\ UNCHANGED <<flf_verify, flf_repository, root_directory_listing,
                   flf_root_directory_item, root_failure, subfolder_failed>>
    /\ UNCHANGED repeated_requests
    /\ UNCHANGED <<engine_vars, catalog_vars, search_vars, parse_vars, index_vars, request_vars>>

\* lines 668-749: a pass of the outer while loop up to the for loop of line
\* 750; the request of the page is answered or raises
RootContents ==
    /\ flf_pc = "root"
    /\ flf_additional_pages
    /\ flf_requests' = flf_requests \cup {ContentsRequest(<<"/">>, flf_page_number)}
    /\ \/ \E exception \in ApiExceptions :
             /\ root_failure' = exception
             /\ flf_pc' = RootFailure(exception)
             /\ flf_result' = <<>>
             /\ UNCHANGED <<flf_page_number, flf_additional_pages,
                            root_directory_listing>>
       \/ LET listing == PageItems(flf_repository.root_pages, flf_page_number)
              decision == RootDecision(flf_verify, listing)
          IN /\ flf_additional_pages' =
                    PageHasNext(flf_repository.root_pages, flf_page_number)
             /\ flf_page_number' = flf_page_number + 1
             /\ root_directory_listing' = listing
             /\ IF decision = "accept" THEN FindReturns(<< <<"/">> >>)
                ELSE IF decision = "reject" THEN FindReturns(<<>>)
                ELSE flf_pc' = "subfolders" /\ UNCHANGED flf_result
             /\ UNCHANGED root_failure
    /\ UNCHANGED <<flf_verify, flf_repository, flf_library_folder, flf_root_directory_item,
                   subfolder_failed>>
    /\ repeated_requests' =
           (repeated_requests \/ ContentsRequest(<<"/">>, flf_page_number) \in flf_requests)
    /\ UNCHANGED <<engine_vars, catalog_vars, search_vars, parse_vars, index_vars, request_vars>>

\* lines 668 and 809-810: the outer while loop has ended
RootLoopEnds ==
    /\ flf_pc = "root"
    /\ ~flf_additional_pages
    /\ FindReturns(<<>>)
    /\ UNCHANGED <<flf_verify, flf_repository, flf_library_folder, flf_page_number,
                   flf_additional_pages, root_directory_listing, flf_root_directory_item,
                   flf_requests, root_failure, subfolder_failed>>
    /\ UNCHANGED repeated_requests
    /\ UNCHANGED <<engine_vars, catalog_vars, search_vars, parse_vars, index_vars, request_vars>>

\* lines 750-754: the for loop takes the next item of the root listing, or
\* has ended
NextRootItem ==
    /\ flf_pc = "subfolders"
    /\ IF root_directory_listing = <<>>
       THEN /\ flf_pc' = "root"
            /\ UNCHANGED <<root_directory_listing, flf_root_directory_item,
                           flf_page_number, flf_additional_pages>>
       ELSE LET item == Head(root_directory_listing)
            IN /\ root_directory_listing' = Tail(root_directory_listing)
               /\ IF item.type = "dir" /\ Head(item.name) # "."
                  THEN /\ flf_root_directory_item' = item.name
                       /\ flf_page_number' = 1
                       /\ flf_additional_pages' = TRUE
                       /\ flf_pc' = "subfolder"
                  ELSE UNCHANGED <<flf_pc, flf_root_directory_item, flf_page_number,
                                   flf_additional_pages>>
    /\ UNCHANGED <<flf_verify, flf_repository, flf_library_folder, flf_result, flf_requests,
                   root_failure, subfolder_failed>>
    /\ UNCHANGED repeated_requests
    /\ UNCHANGED <<engine_vars, catalog_vars, search_vars, parse_vars, index_vars, request_vars>>

\* lines 755-808: a pass of the inner while loop; the request of the page is
\* answered or raises
SubfolderContents ==
    /\ flf_pc = "subfolder"
    /\ flf_additional_pages
    /\ \/ \E exception \in ApiExceptions :
             /\ flf_requests' =
                    flf_requests \cup {ContentsRequest(flf_root_directory_item, flf_page_number)}
             /\ subfolder_failed' = TRUE
             /\ flf_pc' = "subfolders"
             /\ UNCHANGED <<flf_page_number, flf_additional_pages, flf_library_folder,
                            flf_result>>
       \/ LET pages == flf_repository.listing_pages[flf_root_directory_item]
              subdirectory_listing == PageItems(pages, flf_page_number)
          IN /\ flf_requests' =
                    flf_requests
                      \cup {ContentsRequest(flf_root_directory_item, flf_page_number)}
                      \cup SubfolderMetadataRequests(flf_root_directory_item,
                                                     subdirectory_listing)
             /\ flf_additional_pages' = PageHasNext(pages, flf_page_number)
             /\ flf_page_number' = flf_page_number + 1
             /\ IF SubfolderHasLibrary(subdirectory_listing)
                THEN /\ flf_library_folder' = <<flf_root_directory_item>>
                     /\ FindReturns(<<flf_root_directory_item>>)
                ELSE /\ flf_library_folder' = <<>>
                     /\ UNCHANGED <<flf_pc, flf_result>>
             /\ UNCHANGED subfolder_failed
    /\ UNCHANGED <<flf_verify, flf_repository, root_directory_listing,
                   flf_root_directory_item, root_failure>>
    /\ repeated_requests' =
           (\/ repeated_requests
            \/ ContentsRequest(flf_root_directory_item, flf_page_number) \in flf_requests)
    /\ UNCHANGED <<engine_vars, catalog_vars, search_vars, parse_vars, index_vars, request_vars>>

\* line 755: the inner while loop has ended
SubfolderLoopEnds ==
    /\ flf_pc = "subfolder"
    /\ ~flf_additional_pages
    /\ flf_pc' = "subfolders"
    /\ UNCHANGED <<flf_verify, flf_repository, flf_library_folder, flf_page_number,
                   flf_additional_pages, root_directory_listing, flf_root_directory_item,
                   flf_result, flf_requests, root_failure, subfolder_failed>>
    /\ UNCHANGED repeated_requests
    /\ UNCHANGED <<engine_vars, catalog_vars, search_vars, parse_vars, index_vars, request_vars>>

(***************************************************************************)
(* The metadata readers, one call each: parse_library_dot_json (lines      *)
(* 868-991), parse_library_dot_properties (lines 813-865) and              *)
(* get_repository_license (lines 994-1008).                                *)
(***************************************************************************)
\* the longest array of a library.json field
MaxItems == 2

\* a value of library.json: a number or a string (text is str() of it), an
\* object (members holds its members "name" and "url", <<>> for a key it
\* does not have, else <<value>>) or an array (items)
NoMembers == [name |-> <<>>, url |-> <<>>]

JsonNumber == [type |-> "number", text |-> <<"1">>, members |-> NoMembers, items |-> <<>>]

JsonString(str) == [type |-> "string", text |-> str, members |-> NoMembers, items |-> <<>>]

JsonObject(members) == [type |-> "object", text |-> <<>>, members |-> members, items |-> <<>>]

JsonArray(items) == [type |-> "array", text |-> <<>>, members |-> NoMembers, items |-> items]

\* the sequences over S of length max at most
SeqsUpTo(S, max) == UNION { [1..k -> S] : k \in 0..max }

\* a key of the file: <<>> when the file does not have it, else <<value>>
Optional(S) == {<<>>} \cup { <<v>> : v \in S }

\* the elements of an authors array: plain values and objects with a name
\* that is a string, with a name that is a number, and without a name
AuthorElements ==
    {JsonNumber, JsonString(<<"A">>), JsonString(<<"B">>)}
    \cup { JsonObject([NoMembers EXCEPT !.name = n]) :
             n \in Optional({JsonString(<<"A">>), JsonString(<<"B">>), JsonNumber}) }

\* the authors field: an object here has a string for its name or no name
AuthorsValues ==
    {JsonNumber, JsonString(<<"A">>), JsonObject(NoMembers),
     JsonObject([NoMembers EXCEPT !.name = <<JsonString(<<"A">>)>>])}
    \cup { JsonArray(items) : items \in SeqsUpTo(AuthorElements, MaxItems) }

FrameworksValues ==
    {JsonNumber, JsonString(<<"f">>), JsonObject(NoMembers)}
    \cup { JsonArray(items) : items \in SeqsUpTo({JsonString(<<"f">>), JsonNumber}, MaxItems) }

\* the fields of library.json the model keeps, in the order lines 894-989
\* read them, and the column each fills
JsonFields == <<"name", "authors", "repository", "frameworks", "platforms">>

JsonFieldColumn ==
    [name |-> "platformio_name", authors |-> "platformio_authors",
     repository |-> "platformio_repository", frameworks |-> "platformio_frameworks",
     platforms |-> "platformio_platforms"]

\* the files whose top-level value is an object
LibraryJsonObjects ==
    [name : Optional({JsonString(<<"N">>), JsonNumber}),
     authors : Optional(AuthorsValues),
     repository : Optional({JsonString(<<"r">>), JsonNumber, JsonObject(NoMembers),
                            JsonObject([NoMembers EXCEPT !.url = <<JsonString(<<"r">>)>>])}),
     frameworks : Optional(FrameworksValues),
     platforms : Optional({JsonString(<<"p">>),
                           JsonArray(<<JsonString(<<"p">>), JsonString(<<"q">>)>>),
                           JsonArray(<<JsonString(<<"p">>), JsonNumber>>)})]

NoLibraryJson == [f \in DOMAIN JsonFieldColumn |-> <<>>]

\* json_data of the fetch: an object, or valid JSON of another kind: an
\* array such as [1], a number such as 5, a string such as "abc"
LibraryJsonBodies ==
    { [kind |-> "object", members |-> d] : d \in LibraryJsonObjects }
    \cup { [kind |-> k, members |-> NoLibraryJson] : k \in {"array", "number", "string"} }

\* line 893: what dict(json_data) raises
DictRaises(json_data) ==
    CASE json_data.kind = "object" -> "none"
      [] json_data.kind = "array" -> "TypeError"
      [] json_data.kind = "number" -> "TypeError"
      [] json_data.kind = "string" -> "ValueError"

\* str(value)
StrOfJson(value) ==
    IF value.type \in {"number", "string"} THEN value.text ELSE <<"{", "}">>

\* separator.join(strs)
RECURSIVE Join(_, _)
Join(separator, strs) ==
    IF strs = <<>> THEN <<>>
    ELSE IF Len(strs) = 1 THEN strs[1]
         ELSE strs[1] \o separator \o Join(separator, Tail(strs))

\* what the try block of a field does: leave the cell (also after a caught
\* exception), assign it, or let an exception out
SkipField == [raised |-> "none", cell |-> <<>>]

AssignField(str) == [raised |-> "none", cell |-> <<str>>]

RaiseFromField(exception) == [raised |-> exception, cell |-> <<>>]

\* lines 894-899: str(json_data["name"])
NameField(field) ==
    IF field = <<>> THEN SkipField ELSE AssignField(StrOfJson(field[1]))

\* line 920: ", ".join(author["name"] for author in json_data["authors"]).
\* join first draws every element of the generator: author["name"] raises
\* TypeError on a string or a number and KeyError on an object without
\* "name", and the first such element decides; then join raises TypeError
\* when a name is not a str
AuthorNames(items) ==
    LET lookup_fails == { i \in 1..Len(items) :
                            items[i].type # "object" \/ items[i].members.name = <<>> }
        first == CHOOSE i \in lookup_fails : \A j \in lookup_fails : i <= j
    IN IF lookup_fails # {}
       THEN IF items[first].type # "object" THEN RaiseFromField("TypeError")
            ELSE SkipField
       ELSE IF \E i \in 1..Len(items) : items[i].members.name[1].type # "string"
            THEN RaiseFromField("TypeError")
            ELSE AssignField(Join(<<",", " ">>,
                                  [i \in 1..Len(items) |-> items[i].members.name[1].text]))

\* lines 915-930; only KeyError is caught
AuthorsField(field) ==
    IF field = <<>> THEN SkipField
    ELSE CASE field[1].type = "array" -> AuthorNames(field[1].items)
           [] field[1].type = "object" ->
                IF field[1].members.name = <<>> THEN SkipField
                ELSE AssignField(field[1].members.name[1].text)
           [] field[1].type = "string" -> AssignField(field[1].text)
           [] OTHER -> SkipField

\* lines 932-937: str(json_data["repository"]["url"]); KeyError and
\* TypeError are caught
RepositoryField(field) ==
    IF field = <<>> THEN SkipField
    ELSE IF field[1].type = "object" /\ field[1].members.url # <<>>
         THEN AssignField(StrOfJson(field[1].members.url[1]))
         ELSE SkipField

\* lines 967-977 and 979-989: ", ".join(list) raises TypeError when an
\* element is not a str; only KeyError is caught
ListField(field) ==
    IF field = <<>> THEN SkipField
    ELSE CASE field[1].type = "array" ->
                IF \E i \in 1..Len(field[1].items) : field[1].items[i].type # "string"
                THEN RaiseFromField("TypeError")
                ELSE AssignField(Join(<<",", " ">>,
                                      [i \in 1..Len(field[1].items) |->
                                          field[1].items[i].text]))
           [] field[1].type = "string" -> AssignField(field[1].text)
           [] OTHER -> SkipField

JsonFieldOutcome(name, members) ==
    CASE name = "name" -> NameField(members.name)
      [] name = "authors" -> AuthorsField(members.authors)
      [] name = "repository" -> RepositoryField(members.repository)
      [] name = "frameworks" -> ListField(members.frameworks)
      [] name = "platforms" -> ListField(members.platforms)

\* the result of a parse_library_dot_json call: the exception that left it
\* or "none", its return value (<<>> when it raised) and row_list, which
\* the call fills in place
JsonReturn(raised, found, row_list) ==
    [raised |-> raised, found |-> found, row_list |-> row_list]

\* lines 894-991: the try blocks one after the other
RECURSIVE ParseJsonFields(_, _, _)
ParseJsonFields(fields, members, row_list) ==
    IF fields = <<>> THEN JsonReturn("none", <<TRUE>>, row_list)
    ELSE LET field_outcome == JsonFieldOutcome(Head(fields), members)
         IN IF field_outcome.raised # "none"
            THEN JsonReturn(field_outcome.raised, <<>>, row_list)
            ELSE ParseJsonFields(
                     Tail(fields), members,
                     IF field_outcome.cell = <<>> THEN row_list
                     ELSE [row_list EXCEPT ![JsonFieldColumn[Head(fields)]] =
                                               field_outcome.cell[1]])

\* parse_library_dot_json, lines 868-991; when the fetch did not return,
\* lines 885-891 return True for JSONDecodeError and False otherwise
parse_library_dot_json(fetched, json_data, row_list) ==
    IF fetched # "returned"
    THEN JsonReturn("none", <<fetched = "JSONDecodeError">>, row_list)
    ELSE IF DictRaises(json_data) # "none"
         THEN JsonReturn(DictRaises(json_data), <<>>, row_list)
         ELSE ParseJsonFields(JsonFields, json_data.members, row_list)

\* the lines of library.properties: key is what precedes the first "=" of
\* a line (the whole line when equals is FALSE), value what follows it
PropertiesFiles ==
    SeqsUpTo({ [key |-> <<"name", " ">>, equals |-> TRUE, value |-> <<" ", "L">>],
               [key |-> <<"name">>, equals |-> TRUE, value |-> <<"M">>],
               [key |-> <<"name">>, equals |-> FALSE, value |-> <<>>],
               [key |-> <<"url">>, equals |-> TRUE, value |-> <<"u">>] },
             MaxItems)

\* lines 836-843: the for loop over the lines of the file
RECURSIVE ParsePropertiesLines(_, _)
ParsePropertiesLines(lines, row_list) ==
    IF lines = <<>> THEN row_list
    ELSE ParsePropertiesLines(
             Tail(lines),
             IF Head(lines).equals /\ Strip(Head(lines).key) = <<"name">>
             THEN [row_list EXCEPT !.library_manager_name = Head(lines).value]
             ELSE row_list)

\* line 825 letting one more request through
PropertiesRetryLoopConditionOneMore(count) == count <= urlopen_maximum_retries + 1

\* the loop condition of line 825
PropertiesRetryLoopCondition(count) == count <= urlopen_maximum_retries

\* line 825: parse_library_dot_properties is called
ParseLibraryDotPropertiesCalled ==
    /\ parse_pc = "idle"
    /\ parse_pc' = "parse_library_dot_properties"
    /\ properties_file' \in PropertiesFiles
    /\ UNCHANGED <<json_fetched, library_json, json_return, license_input, license_return,
                   properties_retry_count, properties_requests, properties_retryable,
                   properties_status, properties_return, properties_row_list>>

\* lines 826-865: one iteration of the loop, the server answering with any
\* status; the call returns True (line 862), False (line 865) or goes on
PropertiesUrlOpen ==
    /\ parse_pc = "parse_library_dot_properties"
    /\ properties_return = <<>>
    /\ PropertiesRetryLoopCondition(properties_retry_count)
    /\ properties_retry_count' = properties_retry_count + 1
    /\ properties_requests' = properties_requests + 1
    /\ \E status \in HttpStatuses :
          /\ properties_status' = <<status>>
          /\ properties_retryable' =
                 IF determine_urlopen_retry(status) THEN properties_retryable + 1
                 ELSE properties_retryable
          /\ properties_row_list' =
                 IF status = 200 THEN ParsePropertiesLines(properties_file, properties_row_list)
                 ELSE properties_row_list
          /\ properties_return' =
                 IF status = 200 THEN <<"True">>
                 ELSE IF ~determine_urlopen_retry(status) THEN <<"False">>
                      ELSE <<>>
    /\ UNCHANGED <<parse_pc, json_fetched, library_json, json_return, license_input,
                   license_return, properties_file>>

\* line 825: the condition of the loop is false, the function ends without
\* a return statement
PropertiesLoopEnds ==
    /\ parse_pc = "parse_library_dot_properties"
    /\ properties_return = <<>>
    /\ ~PropertiesRetryLoopCondition(properties_retry_count)
    /\ properties_return' = <<"None">>
    /\ UNCHANGED <<parse_pc, json_fetched, library_json, json_return, license_input,
                   license_return, properties_file, properties_retry_count,
                   properties_requests, properties_retryable, properties_status,
                   properties_row_list>>

\* one call of parse_library_dot_json with the row as line 576 made it; the
\* get_json_from_url call of line 884 returns or raises
ParseLibraryDotJsonCalled ==
    /\ parse_pc = "idle"
    /\ parse_pc' = "parse_library_dot_json"
    /\ \E fetched \in {"returned", "HTTPError", "JSONDecodeError", "TimeoutError"} :
       \E body \in IF fetched = "returned" THEN LibraryJsonBodies
                   ELSE {[kind |-> "object", members |-> NoLibraryJson]} :
          /\ json_fetched' = fetched
          /\ library_json' = body
          /\ json_return' = parse_library_dot_json(fetched, body, BlankRow)
    /\ UNCHANGED <<license_input, license_return, properties_file, properties_retry_count,
                   properties_requests, properties_retryable, properties_status,
                   properties_return, properties_row_list>>

\* get_repository_license answering "none" for a null spdx_id too
get_repository_license_none_for_null(repository_object) ==
    IF repository_object.license = <<>> \/ repository_object.license[1].spdx_id = <<>>
    THEN <<"none">>
    ELSE repository_object.license[1].spdx_id[1]

\* get_repository_license, lines 994-1008
get_repository_license(repository_object) ==
    IF repository_object.license = <<>> THEN <<"none">>
    ELSE IF repository_object.license[1].spdx_id = <<>> THEN <<"unrecognized">>
         ELSE repository_object.license[1].spdx_id[1]

\* one call of get_repository_license; the license member of the repository
\* object is <<>> for null, else the license object, whose spdx_id is <<>>
\* for null, else <<the id>>
GetRepositoryLicenseCalled ==
    /\ parse_pc = "idle"
    /\ parse_pc' = "get_repository_license"
    /\ \E license \in Optional({ [spdx_id |-> id] :
                                   id \in Optional({<<"MIT">>, <<"NOASSERTION">>}) }) :
          /\ license_input' = [license |-> license]
          /\ license_return' = get_repository_license([license |-> license])
    /\ UNCHANGED <<json_fetched, library_json, json_return, properties_file,
                   properties_retry_count, properties_requests, properties_retryable,
                   properties_status, properties_return, properties_row_list>>

(***************************************************************************)
(* process_library_manager_index, lines 482-501.                           *)
(***************************************************************************)
MaxIndex == 3

\* library_data["repository"] of the entries of the Library Manager index:
\* the host is repository_url.split('/')[2], html_url the html_url of the
\* repository that lines 497-498 ask the API for
IndexEntries ==
    { [host |-> h, html_url |-> u] : h \in {"github.com"}, u \in HtmlUrls }
    \cup { [host |-> "gitlab.com", html_url |-> <<"a">>] }

\* json_data["libraries"]
LibraryManagerIndexes == UNION { [1..n -> IndexEntries] : n \in 0..MaxIndex }

\* line 487, and the for loop of line 488 entered
ProcessLibraryManagerIndex ==
    /\ index_pc = "idle"
    /\ \E json_data \in LibraryManagerIndexes : libraries' = json_data
    /\ last_repository_url' = <<>>
    /\ index_pc' = "loop"
    /\ UNCHANGED index_response
    /\ UNCHANGED <<engine_vars, catalog_vars, search_vars, find_vars, parse_vars,
                   request_vars>>

\* lines 494 and 496: the entry has the URL of the entry before it, or its
\* repository is not on GitHub; line 501
IndexEntrySkipped ==
    /\ index_pc = "loop"
    /\ libraries # <<>>
    /\ \/ <<Head(libraries)>> = last_repository_url
       \/ Head(libraries).host # "github.com"
    /\ last_repository_url' = <<Head(libraries)>>
    /\ libraries' = Tail(libraries)
    /\ index_response' = "none"
    /\ UNCHANGED index_pc
    /\ UNCHANGED <<engine_vars, catalog_vars, search_vars, find_vars, parse_vars,
                   request_vars>>

\* lines 494-501 for an entry that passes the tests of lines 494 and 496:
\* get_github_api_response returns the repository object, which is handed to
\* populate_row, or raises; no exception is caught in the loop
IndexEntryRequested ==
    /\ index_pc = "loop"
    /\ libraries # <<>>
    /\ <<Head(libraries)>> # last_repository_url
    /\ Head(libraries).host = "github.com"
    /\ libraries' = Tail(libraries)
    /\ \/ \E contributor \in ContributorOutcomes, remaining \in 0..MaxRemaining :
             LET repository_object ==
                     CHOOSE r \in RepositoryObjects : r.html_url = Head(libraries).html_url
                 done == PopulateRowOutcome(table, repository_object, TRUE, FALSE,
                                            Repositories[repository_object.html_url],
                                            contributor)
             IN /\ PopulateRowStep(repository_object, TRUE, FALSE, contributor, remaining)
                /\ index_response' = "returned"
                /\ index_pc' = IF done.status = "raised" THEN contributor.raised
                               ELSE "loop"
                /\ last_repository_url' = IF done.status = "raised"
                                          THEN last_repository_url
                                          ELSE <<Head(libraries)>>
       \/ \E exception \in ApiExceptions :
             /\ index_response' = exception
             /\ index_pc' = exception
             /\ UNCHANGED last_repository_url
             /\ UNCHANGED <<engine_vars, catalog_vars>>
    /\ UNCHANGED <<search_vars, find_vars, parse_vars, request_vars>>

\* the for loop of line 488 is over
IndexLoopEnds ==
    /\ index_pc = "loop"
    /\ libraries = <<>>
    /\ index_pc' = "returned"
    /\ UNCHANGED <<libraries, last_repository_url, index_response>>
    /\ UNCHANGED <<engine_vars, catalog_vars, search_vars, find_vars, parse_vars,
                   request_vars>>

(***************************************************************************)
(* The requests handed to urlopen: set_github_token (lines 173-185),       *)
(* normalize_url (lines 466-479), the headers of lines 378-389, and the    *)
(* request of parse_library_dot_properties (lines 827-835).  The path of a *)
(* URL is a sequence of tokens: "/", " " and a name with neither in it.    *)
(***************************************************************************)
MaxPath == 3

\* what follows the first "/" of the path, as the program puts it together
\* from the request and from the names in the repository data
RequestPaths ==
    { <<"/">> \o p : p \in UNION { [1..n -> {"/", " ", "name"}] : n \in 0..MaxPath } }

\* the URLs get_json_from_url is called with: lines 198, 313, 335, 884, 1024
GetJsonFromUrlUrls ==
    { [scheme |-> "http", host |-> "downloads.arduino.cc",
       path |-> <<"/", "libraries", "/", "library_index.json">>] }
    \cup { [scheme |-> "https", host |-> h, path |-> p] :
             h \in {"api.github.com", "raw.githubusercontent.com"}, p \in RequestPaths }

\* str.replace(n slashes, "/"): the occurrences from the left, not overlapping
RECURSIVE ReplaceSlashes(_, _)
ReplaceSlashes(path, n) ==
    IF path = <<>> THEN <<>>
    ELSE IF Len(path) >= n /\ \A i \in 1..n : path[i] = "/"
    THEN <<"/">> \o ReplaceSlashes(SubSeq(path, n + 1, Len(path)), n)
    ELSE <<Head(path)>> \o ReplaceSlashes(Tail(path), n)

\* urllib.parse.quote(..., safe="&=?/+"): the space is percent-encoded
Quote(path) == [i \in 1..Len(path) |-> IF path[i] = " " THEN "%20" ELSE path[i]]

\* lines 466-479; the scheme and the hosts hold nothing to replace or quote
normalize_url(u) == [u EXCEPT !.path = Quote(ReplaceSlashes(ReplaceSlashes(@, 3), 2))]

\* lines 378-389 with the token put on every request
RequestHeadersEveryHost(u, token) ==
    (IF u.scheme = "https" /\ IsApiUrl(u)
     THEN {[name |-> "Accept", value |-> <<"application/vnd.github.mercy-preview+json">>]}
     ELSE {})
    \cup (IF token # <<>>
          THEN {[name |-> "Authorization", value |-> <<"token ", token[1]>>]}
          ELSE {})

\* lines 378-389: the headers of the request for the normalised URL u
RequestHeaders(u, token) ==
    IF u.scheme = "https" /\ IsApiUrl(u)
    THEN {[name |-> "Accept", value |-> <<"application/vnd.github.mercy-preview+json">>]}
         \cup (IF token # <<>>
               THEN {[name |-> "Authorization", value |-> <<"token ", token[1]>>]}
               ELSE {})
    ELSE {}

\* line 150: set_github_token is called with the token of the command line,
\* before any request is made; without --ghtoken the global stays None
SetGithubToken ==
    /\ github_token = <<>>
    /\ sent = <<>>
    /\ github_token' = <<"ghtoken">>
    /\ UNCHANGED sent
    /\ UNCHANGED <<engine_vars, catalog_vars, search_vars, find_vars, parse_vars,
                   index_vars>>

\* lines 371-391: get_json_from_url hands a request to urlopen
GetJsonFromUrlRequest ==
    /\ \E u \in GetJsonFromUrlUrls :
          sent' = <<[url |-> normalize_url(u),
                     headers |-> RequestHeaders(normalize_url(u), github_token),
                     by |-> "get_json_from_url"]>>
    /\ UNCHANGED github_token
    /\ UNCHANGED <<engine_vars, catalog_vars, search_vars, find_vars, parse_vars,
                   index_vars>>

\* lines 827-835: parse_library_dot_properties hands the URL to urlopen
ParseLibraryDotPropertiesRequest ==
    /\ \E p \in RequestPaths :
          sent' = <<[url |-> normalize_url([scheme |-> "https",
                                            host |-> "raw.githubusercontent.com",
                                            path |-> p]),
                     headers |-> {},
                     by |-> "parse_library_dot_properties"]>>
    /\ UNCHANGED github_token
    /\ UNCHANGED <<engine_vars, catalog_vars, search_vars, find_vars, parse_vars,
                   index_vars>>

\* the state after initialize_table (lines 141-145 and 242-286), no operation
\* started
Init ==
    /\ last_api_requests_remaining_value = [p \in Pools |-> 0]
    /\ now = 0
    /\ op = "none"
    /\ pc = "idle"
    /\ api_type = "core"
    /\ target = RateLimitUrl
    /\ url = RateLimitUrl
    /\ retry_count = 0
    /\ outcome = "none"
    /\ result = NoResult
    /\ response = <<>>
    /\ requests = 0
    /\ retryable_failures = 0
    /\ sleeps = 0
    /\ rate_limiting_reset_time = 0
    /\ entry_remaining = 0
    /\ status_queries = 0
    /\ waited = FALSE
    /\ checked = "none"
    /\ resumed = "none"
    /\ op_result = NoOpResult
    /\ table = <<HeadingRow>>
    /\ occurrences = [u \in HtmlUrls |-> 0]
    /\ first_row = [u \in HtmlUrls |-> <<>>]
    /\ appended_by = << <<>> >>
    /\ search_pc = "idle"
    /\ search_verify = FALSE
    /\ segments = 0
    /\ last_page = 1
    /\ page_number = 1
    /\ additional_pages = FALSE
    /\ json_items = <<>>
    /\ requested_pages = <<>>
    /\ served = <<>>
    /\ passed = <<>>
    /\ flf_pc = "idle"
    /\ flf_verify = FALSE
    /\ flf_repository = NoRepository
    /\ flf_library_folder = <<>>
    /\ flf_page_number = 1
    /\ flf_additional_pages = FALSE
    /\ root_directory_listing = <<>>
    /\ flf_root_directory_item = <<"/">>
    /\ flf_result = <<>>
    /\ flf_requests = {}
    /\ root_failure = "none"
    /\ subfolder_failed = FALSE
    /\ repeated_requests = FALSE
    /\ parse_pc = "idle"
    /\ json_fetched = "returned"
    /\ library_json = [kind |-> "object", members |-> NoLibraryJson]
    /\ json_return = JsonReturn("none", <<>>, BlankRow)
    /\ license_input = [license |-> <<>>]
    /\ license_return = <<>>
    /\ properties_file = <<>>
    /\ properties_retry_count = 0
    /\ properties_requests = 0
    /\ properties_retryable = 0
    /\ properties_status = <<>>
    /\ properties_return = <<>>
    /\ properties_row_list = BlankRow
    /\ index_pc = "idle"
    /\ libraries = <<>>
    /\ last_repository_url = <<>>
    /\ index_response = "none"
    /\ github_token = <<>>
    /\ sent = <<>>

\* the crawl engine
Next ==
    \/ CallGetGithubApiResponse
          /\ UNCHANGED <<catalog_vars, search_vars, find_vars, parse_vars,
                         index_vars, request_vars>>
    \/ CallGetContributorCount
          /\ UNCHANGED <<catalog_vars, search_vars, find_vars, parse_vars,
                         index_vars, request_vars>>
    \/ CallGetJsonFromUrl
          /\ UNCHANGED <<catalog_vars, search_vars, find_vars, parse_vars,
                         index_vars, request_vars>>
    \/ CheckRateLimiting
          /\ UNCHANGED <<catalog_vars, search_vars, find_vars, parse_vars,
                         index_vars, request_vars>>
    \/ UrlOpen
          /\ UNCHANGED <<catalog_vars, search_vars, find_vars, parse_vars,
                         index_vars, request_vars>>
    \/ RaiseTimeoutError
          /\ UNCHANGED <<catalog_vars, search_vars, find_vars, parse_vars,
                         index_vars, request_vars>>
    \/ RateLimitFetched
          /\ UNCHANGED <<catalog_vars, search_vars, find_vars, parse_vars,
                         index_vars, request_vars>>
    \/ RateLimitWaitOver
          /\ UNCHANGED <<catalog_vars, search_vars, find_vars, parse_vars,
                         index_vars, request_vars>>
    \/ OperationReturns
          /\ UNCHANGED <<catalog_vars, search_vars, find_vars, parse_vars,
                         index_vars, request_vars>>
    \/ OperationDone
          /\ UNCHANGED <<catalog_vars, search_vars, find_vars, parse_vars,
                         index_vars, request_vars>>
    \/ Tick
          /\ UNCHANGED <<catalog_vars, search_vars, find_vars, parse_vars,
                         index_vars, request_vars>>

Spec == Init /\ [][Next]_vars

\* the catalog builder: any sequence of populate_row calls
NextRows == PopulateRow /\ UNCHANGED <<search_vars, find_vars, parse_vars,
                                       index_vars, request_vars>>

SpecRows == Init /\ [][NextRows]_vars

\* one call of search_repositories on the table as initialize_table left it;
\* populate_table (lines 193-239) makes such calls one after the other
NextSearch ==
    \/ SearchRepositories
    \/ SearchPage
    \/ SearchItem
    \/ SearchPageDone
    \/ SearchSegmentDone

SpecSearch == Init /\ [][NextSearch]_vars

\* one call of find_library_folder
NextFind ==
    \/ FindLibraryFolderCalled
    \/ ParseRootProperties
    \/ ParseRootJson
    \/ RootContents
    \/ RootLoopEnds
    \/ NextRootItem
    \/ SubfolderContents
    \/ SubfolderLoopEnds

SpecFind == Init /\ [][NextFind]_vars

\* one call of one of the metadata readers
NextParse ==
    \/ ParseLibraryDotJsonCalled /\ UNCHANGED <<engine_vars, catalog_vars, search_vars, find_vars,
                    index_vars, request_vars>>
    \/ GetRepositoryLicenseCalled /\ UNCHANGED <<engine_vars, catalog_vars, search_vars, find_vars,
                    index_vars, request_vars>>
    \/ ParseLibraryDotPropertiesCalled
          /\ UNCHANGED <<engine_vars, catalog_vars, search_vars, find_vars,
                    index_vars, request_vars>>
    \/ PropertiesUrlOpen /\ UNCHANGED <<engine_vars, catalog_vars, search_vars, find_vars,
                    index_vars, request_vars>>
    \/ PropertiesLoopEnds /\ UNCHANGED <<engine_vars, catalog_vars, search_vars, find_vars,
                    index_vars, request_vars>>

SpecParse == Init /\ [][NextParse]_vars

\* one call of process_library_manager_index on the table as initialize_table
\* left it, as populate_table makes it at line 199
NextIndex ==
    \/ ProcessLibraryManagerIndex
    \/ IndexEntrySkipped
    \/ IndexEntryRequested
    \/ IndexLoopEnds

SpecIndex == Init /\ [][NextIndex]_vars

\* the requests of a run, with or without a token
NextRequest ==
    \/ SetGithubToken
    \/ GetJsonFromUrlRequest
    \/ ParseLibraryDotPropertiesRequest

SpecRequest == Init /\ [][NextRequest]_vars

(***************************************************************************)
(* The claims about the crawl engine, checked under Spec.                  *)
(***************************************************************************)
\* the response the fetch in progress received last
HasResponse == response # <<>>

LastResponse == response[1]

RetriedStatuses == {403, 502, 503}

\* every response of the fetch so far had a retried status
OnlyRetryableFailures == requests > 0 /\ retryable_failures = requests

\* C3: a fetch whose every response has status 403, 502 or 503 makes exactly
\* urlopen_maximum_retries + 1 = 6 requests and then raises TimeoutError: no
\* fetch makes a 7th request, a fetch that has met nothing but such responses
\* has not returned, after the 6th the only step left is the raise, and
\* TimeoutError is raised after exactly 6 such responses.
C3_RetryBound ==
    /\ requests <= 6
    /\ OnlyRetryableFailures => outcome \in {"running", "TimeoutError"}
    /\ (OnlyRetryableFailures /\ outcome = "running" /\ requests = 6)
           => (ENABLED RaiseTimeoutError /\ ~ENABLED UrlOpen)
    /\ (OnlyRetryableFailures /\ outcome = "running" /\ requests < 6) => ENABLED UrlOpen
    /\ outcome = "TimeoutError" => (requests = 6 /\ OnlyRetryableFailures)

C3_Witness ==
    outcome = "TimeoutError" /\ requests = 6 /\ retryable_failures = 6 /\ sleeps = 6

\* C4: once a response has an error status other than 403, 502 and 503, the
\* fetch has raised HTTPError: that response was its last request (all the
\* earlier ones were retried failures), no sleep was taken for it, no result
\* is returned and no further request can be made.
C4_OtherErrorFailsAtOnce ==
    (HasResponse /\ LastResponse.status \notin ({200} \cup RetriedStatuses))
        => /\ outcome = "HTTPError"
           /\ requests = retryable_failures + 1
           /\ sleeps = retryable_failures
           /\ result = NoResult
           /\ ~ENABLED UrlOpen

C4_Witness ==
    /\ HasResponse /\ LastResponse.status = 404
    /\ outcome = "HTTPError" /\ requests = 3 /\ sleeps = 2

\* C5: once a response with a success status has a body that is not JSON, the
\* fetch has raised JSONDecodeError: no request follows that response, no
\* sleep was taken for it and no result is returned.
C5_DecodeErrorIsRaised ==
    (HasResponse /\ LastResponse.status = 200 /\ ~LastResponse.decodable)
        => /\ outcome = "JSONDecodeError"
           /\ requests = retryable_failures + 1
           /\ sleeps = retryable_failures
           /\ result = NoResult
           /\ ~ENABLED UrlOpen

C5_Witness ==
    /\ HasResponse /\ LastResponse.status = 200 /\ ~LastResponse.decodable
    /\ outcome = "JSONDecodeError" /\ requests = 1 /\ pc = "get_json_from_url"

\* check_rate_limiting has returned to the operation, which has not made its
\* request yet
CheckReturned == pc = "get_json_from_url" /\ op # "get_json_from_url" /\ requests = 0

\* C6: a check_rate_limiting call entered with cached remaining zero has made
\* a status query when it returns, and if the remaining value the query
\* reported is zero it returns only when the clock has reached the reported
\* reset time; the operation's request is not made before that time.
C6_WaitsForReset ==
    /\ (CheckReturned /\ entry_remaining = 0) => status_queries = 1
    /\ (CheckReturned /\ entry_remaining = 0
          /\ last_api_requests_remaining_value[api_type] = 0)
           => (waited /\ now >= rate_limiting_reset_time)
    /\ (pc = "get_json_from_url" /\ waited) => now >= rate_limiting_reset_time

C6_Witness ==
    /\ pc = "get_json_from_url" /\ waited /\ requests = 1 /\ QuotaBearing(url)
    /\ rate_limiting_reset_time = 1

\* C7: a check_rate_limiting call entered with a nonzero cached remaining
\* value of its pool returns in that step: no rate_limit fetch is started, the
\* wait loop is not entered, time has not passed and both cached counters are
\* unchanged; the operation's own fetch is what follows.
C7_NonzeroReturnsAtOnce ==
    [][(pc = "check_rate_limiting" /\ pc' # pc
          /\ last_api_requests_remaining_value[api_type] # 0)
        => /\ pc' = "get_json_from_url"
           /\ url' = target
           /\ requests' = 0
           /\ status_queries' = 0
           /\ ~waited'
           /\ now' = now
           /\ last_api_requests_remaining_value' = last_api_requests_remaining_value]_vars

C7_Witness ==
    /\ CheckReturned /\ entry_remaining = 1 /\ status_queries = 0 /\ ~waited
    /\ last_api_requests_remaining_value[api_type] = 1

\* C8: when check_rate_limiting returns from the wait loop the cached counter
\* of its pool is zero, and stays zero until a successful response to a URL of
\* that pool arrives or a status query for the pool is answered; a
\* check_rate_limiting call for that pool made before such a response starts
\* a status query.
C8_ZeroAfterWait ==
    /\ [](resumed # "none" => last_api_requests_remaining_value[resumed] = 0)
    /\ [][(pc = "check_rate_limiting" /\ pc' # pc /\ resumed = api_type)
           => (pc' = "rate_limit_fetch" /\ url' = RateLimitUrl /\ status_queries' = 1)]_vars

\* the check after the one that waited has started its status query
C8_Witness ==
    /\ pc = "rate_limit_fetch" /\ resumed = api_type /\ requests = 0
    /\ outcome = "running" /\ ~waited

C10_FetchFollowsCheck ==
    [][(requests = 0 /\ requests' = 1 /\ QuotaBearing(url))
        => checked = PoolOfUrl(url)]_vars

\* a quota-bearing fetch that was checked, then retried and answered
C10_Witness ==
    /\ pc = "get_json_from_url" /\ QuotaBearing(url) /\ requests = 2
    /\ outcome = "returned" /\ checked = "none"

\* C10 as stated: every request to a quota-bearing API URL is made after a
\* check_rate_limiting call for the URL's pool, with no quota-bearing request
\* between the two.
C10_Original ==
    [][(requests' = requests + 1 /\ QuotaBearing(url))
        => checked = PoolOfUrl(url)]_vars

\* C21: get_contributor_count never raises: whenever the operation has
\* ended, it has returned a value, and that value is the empty string unless
\* the contributors request returned.
C21_NeverRaises ==
    (op = "get_contributor_count" /\ pc = "done")
        => /\ op_result.raised = "none"
           /\ outcome # "returned" => op_result.value = <<>>

\* C22: the result of a fetch that returned has page_count 0 and
\* additional_pages false when the decoded body is empty; otherwise
\* page_count is the integer page number of the Link header's rel="last"
\* relation, or 1 when there is none, and additional_pages is true exactly
\* when the Link header has a rel="next" relation.
C22_PageCountAndAdditionalPages ==
    (HasResponse /\ outcome = "returned")
        => IF LastResponse.json.empty
           THEN result.page_count = IntValue(0) /\ ~result.additional_pages
           ELSE /\ result.page_count =
                      IntValue(IF LastResponse.link_last # 0
                               THEN LastResponse.link_last ELSE 1)
                /\ result.additional_pages = LastResponse.link_next

\* C31: a step of a check_rate_limiting call for a pool, its status query
\* included, changes the cached counter of no other pool, and a step of a
\* fetch of an API URL changes the cached counter of no pool but the URL's.
C31_PoolsAreIndependent ==
    [][\A p \in Pools :
          last_api_requests_remaining_value'[p] # last_api_requests_remaining_value[p]
            => p = IF pc \in {"check_rate_limiting", "rate_limit_fetch", "rate_limit_wait"}
                   THEN api_type ELSE PoolOfUrl(url)]_vars

\* C36: a request that is answered with an HTTP error, the raise of
\* TimeoutError, and every step of a fetch of a URL outside the API leave
\* both cached counters as they were.
C36_FailuresLeaveCounters ==
    [][(\/ requests' = requests + 1 /\ response'[1].status # 200
        \/ outcome = "running" /\ outcome' \in {"HTTPError", "TimeoutError"}
        \/ pc = "get_json_from_url" /\ ~IsApiUrl(url))
          => last_api_requests_remaining_value' = last_api_requests_remaining_value]_vars

\* a fetch of a URL outside the API returned a response with an
\* X-RateLimit-Remaining header of 1, and both counters are still 0
C36_Witness ==
    /\ HasResponse /\ outcome = "returned" /\ ~IsApiUrl(url)
    /\ LastResponse.ratelimit = <<1>>
    /\ last_api_requests_remaining_value = [p \in Pools |-> 0]

(***************************************************************************)
(* The claims about the table, checked under SpecRows.                     *)
(***************************************************************************)
\* the rows of the table whose URL cell is u
RowsWithUrl(u) == { i \in 1..Len(table) : table[i].repository_url = u }

\* C1: no two rows of the table have the same repository URL.
C1_UniqueUrls ==
    \A i, j \in 1..Len(table) :
        i # j => table[i].repository_url # table[j].repository_url

\* C2 as stated: a URL that populate_row was called with more than once has
\* exactly one row, and that row is the one of the first call made with it.
C2_Original ==
    \A u \in HtmlUrls :
        occurrences[u] = 2
            => /\ first_row[u] # <<>>
               /\ Cardinality(RowsWithUrl(u)) = 1
               /\ \A i \in RowsWithUrl(u) : table[i] = first_row[u][1]

\* C2, as amended: of the rows appended by the calls made with a URL at most
\* one has that URL in its URL cell; and when the first call made with the
\* URL appended a row, that row is in the table as it was appended, and no
\* later call made with the URL has added another row with that URL cell.
C2_FirstSeenWins ==
    \A u \in HtmlUrls :
        LET rows == { i \in RowsWithUrl(u) : appended_by[i] = u }
        IN /\ Cardinality(rows) <= 1
           /\ first_row[u] # <<>>
                 => /\ \E i \in 1..Len(table) :
                          appended_by[i] = u /\ table[i] = first_row[u][1]
                    /\ \A i \in rows : table[i] = first_row[u][1]

\* the URL "a" was fed twice, the first call appended its row and the second
\* added none
C2_Witness ==
    /\ occurrences[<<"a">>] = 2
    /\ first_row[<<"a">>] # <<>>
    /\ Cardinality(RowsWithUrl(<<"a">>)) = 1
    /\ \A i \in RowsWithUrl(<<"a">>) : table[i] = first_row[<<"a">>][1]

\* the folders of the root listing of the repository at a URL
RootFolders(u) ==
    { Repositories[u].root[k].name :
        k \in { n \in 1..Len(Repositories[u].root) : Repositories[u].root[n].type = "dir" } }

C20_AppendOnly ==
    [][/\ Len(table') >= Len(table)
       /\ \A i \in 1..Len(table) : table'[i] = table[i]]_vars

\* the repository "b" came up twice, its row is in the table, and a row was
\* appended after it
C20_Witness ==
    /\ occurrences[<<"b">>] = 2
    /\ \E i \in 2..Len(table) :
          /\ table[i].repository_url = <<"b">>
          /\ i < Len(table)

\* C28: no cell of a row that populate_row appended holds a tab, and none
\* begins or ends with a whitespace character.
C28_CellsAreSanitised ==
    \A i \in 2..Len(table) : \A c \in Columns :
        /\ \A k \in 1..Len(table[i][c]) : table[i][c][k] # "\t"
        /\ table[i][c] # <<>>
              => /\ table[i][c][1] \notin Whitespace
                 /\ table[i][c][Len(table[i][c])] \notin Whitespace

\* the row of the repository whose description is "\td\te " and the row of
\* the repository whose html_url is " a" are in the table
C28_Witness ==
    /\ \E i \in 2..Len(table) :
          table[i].repository_description = <<"d", " ", " ", " ", " ", "e">>
    /\ \E i \in 2..Len(table) :
          appended_by[i] = <<" ", "a">> /\ table[i].repository_url = <<"a">>

\* the cells that the descriptor parsers fill
DescriptorColumns ==
    {"library_manager_name", "platformio_name", "platformio_authors",
     "platformio_repository", "platformio_frameworks", "platformio_platforms"}

\* C33: the table changes only by populate_row appending one row to it, and
\* the row is appended finished: every cell of it is sanitised, and it holds
\* the URL of the repository, the index flag, and the folder and the
\* descriptor cells that find_library_folder found for the repository.
C33_RowsAppendedWhenFinished ==
    [][table' # table =>
         LET row == table'[Len(table')]
             html_url == appended_by'[Len(table')]
         IN /\ table' = Append(table, row)
            /\ \A c \in Columns : row[c] = SanitizeCell(row[c])
            /\ row.repository_url = SanitizeCell(html_url)
            /\ row.in_library_manager_index \in {StrBool(TRUE), StrBool(FALSE)}
            /\ \E verify \in BOOLEAN :
                  LET found == FindLibraryFolder(Repositories[html_url], BlankRow, verify)
                  IN /\ row.library_path = IF found.library_folder = <<>> THEN <<>>
                                           ELSE SanitizeCell(found.library_folder[1])
                     /\ \A c \in DescriptorColumns :
                           row[c] = SanitizeCell(found.row_list[c])]_vars

\* the row of the repository "b" was appended for the Library Manager index,
\* with the folder and the name that find_library_folder found, after the row
\* of the repository " a"
C33_Witness ==
    /\ Len(table) = 3
    /\ appended_by[2] = <<" ", "a">>
    /\ appended_by[3] = <<"b">>
    /\ table[3].library_path = <<"s", "r", "c">>
    /\ table[3].platformio_name = <<"P">>
    /\ table[3].in_library_manager_index = StrBool(TRUE)

(***************************************************************************)
(* The claims about search_repositories, checked under SpecSearch.         *)
(***************************************************************************)
\* seq is the beginning of whole
IsPrefix(seq, whole) ==
    /\ Len(seq) <= Len(whole)
    /\ SubSeq(whole, 1, Len(seq)) = seq

\* the segment's while loop has ended
SegmentFinished ==
    \/ search_pc = "returned"
    \/ search_pc = "page" /\ ~additional_pages

\* C11: for a segment of N pages the pages requested are 1, 2, ... in this
\* order, each once and none beyond N; the loop ends after the first page
\* that reports no further page, which is page N; and the items handed to
\* populate_row are the items of the pages answered, in order, each once.
C11_PagesInOrder ==
    /\ Len(requested_pages) <= last_page
    /\ \A k \in 1..Len(requested_pages) : requested_pages[k] = k
    /\ IsPrefix(passed, served)
    /\ SegmentFinished
          => /\ Len(requested_pages) = last_page
             /\ passed = served

\* a segment of two pages or more with three items or more has been finished
C11_Witness ==
    /\ search_pc = "returned"
    /\ last_page >= 2
    /\ Len(requested_pages) = last_page
    /\ Len(served) >= 3
    /\ passed = served

\* C15: a populate_row call for a URL that is not in the table appends a row,
\* in verify mode, exactly if find_library_folder finds a folder; without
\* verification it appends a row in any case, and the library_path of the
\* row is empty when find_library_folder finds none.
C15_AppendsUnlessRejected ==
    [][(search_pc = "items" /\ json_items # <<>>
           /\ ~IsOnTheList(table, Head(json_items)))
          => LET found ==
                     FindLibraryFolder(Repositories[Head(json_items).html_url],
                                       BlankRow, search_verify).library_folder # <<>>
                 appended == Len(table') = Len(table) + 1
             IN IF search_verify
                THEN appended <=> found
                ELSE /\ appended
                     /\ ~found => table'[Len(table')].library_path = <<>>]_vars

(***************************************************************************)
(* The claims about find_library_folder, checked under SpecFind.           *)
(***************************************************************************)
\* the pages of a listing, one after the other
RECURSIVE AllItems(_)
AllItems(pages) ==
    IF pages = <<>> THEN <<>> ELSE Head(pages) \o AllItems(Tail(pages))

NoRootDescriptor ==
    ~flf_repository.properties_root /\ ~flf_repository.json_root

\* the items of the root listing of the repository, all pages
RootItems ==
    { AllItems(flf_repository.root_pages)[i] :
        i \in 1..Len(AllItems(flf_repository.root_pages)) }

RootHasHeaderFile == \E item \in RootItems : IsHeaderFile(item)

RootHasSketchFile == \E item \in RootItems : IsSketchFile(item)

RootHasExamplesFolder == \E item \in RootItems : IsExamplesFolder(item)

\* every contents request of the call so far was answered
AllContentsAnswered == root_failure = "none" /\ ~subfolder_failed

\* the first folder of the listing, not starting with a dot, whose own listing
\* shows a library; <<>> if there is none
RECURSIVE FirstLibraryFolder(_)
FirstLibraryFolder(listing) ==
    IF listing = <<>> THEN <<>>
    ELSE IF /\ Head(listing).type = "dir"
            /\ Head(Head(listing).name) # "."
            /\ SubfolderHasLibrary(AllItems(flf_repository.listing_pages[Head(listing).name]))
         THEN <<Head(listing).name>>
         ELSE FirstLibraryFolder(Tail(listing))

\* C12: in verify mode, with no metadata file in the root and a root listing
\* of one page, the result is "/" exactly if the listing has a header file
\* and has no sketch or has an examples folder; otherwise it is None.
C12_VerifyAcceptance ==
    (/\ flf_pc = "returned"
     /\ flf_verify
     /\ NoRootDescriptor
     /\ Len(flf_repository.root_pages) = 1
     /\ root_failure = "none")
        => flf_result =
              IF RootHasHeaderFile /\ (~RootHasSketchFile \/ RootHasExamplesFolder)
              THEN << <<"/">> >> ELSE <<>>

\* a root with a header file, a sketch and an examples folder passed the
\* verification
C12_Witness ==
    /\ flf_pc = "returned"
    /\ flf_verify
    /\ NoRootDescriptor
    /\ flf_repository.root_pages = << <<HeaderFile, SketchFile, ExamplesFolder>> >>
    /\ flf_result = << <<"/">> >>

C14_VerifyStaysInRoot ==
    (flf_pc # "idle" /\ flf_verify)
        => /\ \A r \in flf_requests : r.folder = <<"/">>
           /\ flf_pc = "returned" => flf_result \in { <<>>, << <<"/">> >> }

\* a verifying call rejected a repository whose library is in the folder foo
C14_Witness ==
    /\ flf_pc = "returned"
    /\ flf_verify
    /\ flf_repository.root_pages = << <<FooFolder>> >>
    /\ flf_repository.listing_pages[FooFolder.name] = << <<HeaderFile>> >>
    /\ root_failure = "none"
    /\ flf_result = <<>>

\* C16: when a contents request of the root raises (HTTPError,
\* JSONDecodeError or TimeoutError), find_library_folder returns None, with
\* and without verification, and the exception does not leave it.
C16_RootFailureIsNotFound ==
    /\ flf_pc # "raised"
    /\ root_failure # "none" => flf_pc = "returned" /\ flf_result = <<>>

\* a call without verification whose root request could not be decoded
C16_Witness ==
    /\ root_failure = "JSONDecodeError"
    /\ ~flf_verify
    /\ flf_pc = "returned"
    /\ flf_result = <<>>

\* C17: without verification, with no metadata file in the root and no header
\* file in the root listing, the result is the first folder of the root
\* listing, not starting with a dot, whose listing has a header file,
\* library.properties or library.json.
C17_FirstFolderWithLibrary ==
    (/\ flf_pc = "returned"
     /\ ~flf_verify
     /\ NoRootDescriptor
     /\ ~RootHasHeaderFile
     /\ AllContentsAnswered)
        => flf_result = FirstLibraryFolder(AllItems(flf_repository.root_pages))

\* C18: without verification and with no metadata file in the root, the
\* result is "/" whenever the root listing has a header file, and no
\* contents of a subfolder are requested.
C18_HeaderInRootAccepted ==
    (/\ flf_pc = "returned"
     /\ ~flf_verify
     /\ NoRootDescriptor
     /\ RootHasHeaderFile
     /\ AllContentsAnswered)
        => /\ flf_result = << <<"/">> >>
           /\ \A r \in flf_requests : r.folder = <<"/">>

\* C29: find_library_folder never requests the same page of the same
\* directory listing twice, whichever requests fail, so that the contents
\* requests of a call are at most the pages of the root listing and of the
\* subfolder listings.
C29_NoPageRequestedTwice == ~repeated_requests

\* C30: with no metadata file in the root and every request answered, the
\* result follows from the items of all pages of the root listing: with
\* verification it is "/" exactly if they hold a header file and hold no
\* sketch or hold an examples folder, None otherwise; without verification
\* it is "/" whenever they hold a header file.
C30_EveryRootPageCounts ==
    (flf_pc = "returned" /\ NoRootDescriptor /\ AllContentsAnswered)
        => IF flf_verify
           THEN flf_result =
                   IF RootHasHeaderFile /\ (~RootHasSketchFile \/ RootHasExamplesFolder)
                   THEN << <<"/">> >> ELSE <<>>
           ELSE RootHasHeaderFile => flf_result = << <<"/">> >>

\* the metadata files the call has parsed: the requests for a metadata file
\* that the repository has at that place (the requests for the files of the
\* root are made blind, those for a subfolder after the file was listed)
DescriptorSources ==
    { r \in flf_requests :
        \/ r.kind = "properties" /\ (r.folder = <<"/">> => flf_repository.properties_root)
        \/ r.kind = "json" /\ (r.folder = <<"/">> => flf_repository.json_root) }

\* C34: when find_library_folder has returned and a metadata file was parsed
\* into the row, the call returned a folder, which populate_row writes to
\* library_path (lines 581-587), and every metadata file that was parsed is
\* in that folder.
C34_DescriptorsFromLibraryPath ==
    (flf_pc = "returned" /\ DescriptorSources # {})
        => /\ flf_result # <<>>
           /\ \A r \in DescriptorSources : r.folder = flf_result[1]

\* the folder foo, listed before the folder bar, held library.properties, and
\* the call returned foo
C34_Witness ==
    /\ flf_pc = "returned"
    /\ flf_result = <<FooFolder.name>>
    /\ DescriptorSources = {PropertiesRequest(FooFolder.name)}
    /\ flf_repository.root_pages = << <<FooFolder, BarFolder>> >>
    /\ flf_repository.listing_pages[BarFolder.name] = << <<HeaderFile>> >>

(***************************************************************************)
(* The claims about the metadata readers, checked under SpecParse.         *)
(***************************************************************************)
JsonCalled == parse_pc = "parse_library_dot_json"

PropertiesCalled == parse_pc = "parse_library_dot_properties"

\* the value of a field of the library.json that was parsed
JsonField(name) == library_json.members[name][1]

HasJsonField(name) == library_json.kind = "object" /\ library_json.members[name] # <<>>

\* an array whose elements are all strings
IsArrayOfStrings(value) ==
    /\ value.type = "array"
    /\ \A i \in 1..Len(value.items) : value.items[i].type = "string"

\* an array of objects that each have a string for their name
IsArrayOfNamedObjects(value) ==
    /\ value.type = "array"
    /\ \A i \in 1..Len(value.items) :
          /\ value.items[i].type = "object"
          /\ value.items[i].members.name # <<>>
          /\ value.items[i].members.name[1].type = "string"

\* C23: parse_library_dot_json returns True when the file was fetched, also
\* when its JSON could not be decoded, and returns False with every cell of
\* the row as it was when the fetch raised HTTPError or TimeoutError.
C23_FoundUnlessFetchFailed ==
    JsonCalled
        => /\ json_fetched \in {"returned", "JSONDecodeError"}
                => json_return.raised = "none" /\ json_return.found = <<TRUE>>
           /\ json_fetched \in {"HTTPError", "TimeoutError"}
                => /\ json_return.raised = "none"
                   /\ json_return.found = <<FALSE>>
                   /\ json_return.row_list = BlankRow

\* C24: parse_library_dot_properties makes at most 6 requests and returns
\* in every case: True exactly when the last answer was the file, False
\* exactly when it was an HTTP error that is not retried, and None only
\* after urlopen_maximum_retries + 1 answers that were all retried errors;
\* after that many the call makes no further request.
C24_PropertiesNeverRaises ==
    PropertiesCalled
        => /\ properties_requests <= 6
           /\ properties_return \in {<<>>, <<"True">>, <<"False">>, <<"None">>}
           /\ properties_return = <<"True">> <=> properties_status = <<200>>
           /\ properties_return = <<"False">>
                <=> /\ properties_status # <<>>
                    /\ properties_status[1] \notin {200} \cup RetriedStatuses
           /\ properties_return = <<"None">>
                => /\ properties_requests = urlopen_maximum_retries + 1
                   /\ properties_retryable = urlopen_maximum_retries + 1
           /\ properties_return \in {<<"False">>, <<"None">>}
                => properties_row_list = BlankRow

C24_Witness ==
    /\ PropertiesCalled
    /\ properties_return = <<"None">>
    /\ properties_requests = 6
    /\ properties_status = <<503>>

\* C25: when the authors field of library.json is a list of strings, the
\* call returns True and the platformio_authors cell is the strings joined
\* by ", " in their order.
C25_AuthorsListOfStrings ==
    (JsonCalled /\ json_fetched = "returned" /\ HasJsonField("authors")
       /\ IsArrayOfStrings(JsonField("authors")))
        => /\ json_return.found = <<TRUE>>
           /\ json_return.row_list.platformio_authors =
                  Join(<<",", " ">>, [i \in 1..Len(JsonField("authors").items) |->
                                         JsonField("authors").items[i].text])

\* the shapes lines 915-989 do not provide for
UnexpectedAuthors ==
    /\ HasJsonField("authors")
    /\ \/ JsonField("authors").type = "number"
       \/ JsonField("authors").type = "array" /\ ~IsArrayOfNamedObjects(JsonField("authors"))

UnexpectedRepository ==
    /\ HasJsonField("repository")
    /\ JsonField("repository").type # "object"

UnexpectedList(name) ==
    /\ HasJsonField(name)
    /\ JsonField(name).type # "string"
    /\ ~IsArrayOfStrings(JsonField(name))

\* C26: whatever the shapes of the fields of a library.json object, the
\* call raises nothing and returns True, the cell of a field of an
\* unexpected shape is as it was, and the name field fills its cell.
C26_UnexpectedShapesSkipped ==
    (JsonCalled /\ json_fetched = "returned" /\ library_json.kind = "object")
        => /\ json_return.raised = "none"
           /\ json_return.found = <<TRUE>>
           /\ HasJsonField("name")
                => json_return.row_list.platformio_name = JsonField("name").text
           /\ UnexpectedAuthors => json_return.row_list.platformio_authors = <<>>
           /\ UnexpectedRepository => json_return.row_list.platformio_repository = <<>>
           /\ UnexpectedList("frameworks")
                => json_return.row_list.platformio_frameworks = <<>>
           /\ UnexpectedList("platforms")
                => json_return.row_list.platformio_platforms = <<>>

\* C27: get_repository_license returns "none" for a null license,
\* "unrecognized" for a license object whose spdx_id is null, and the
\* spdx_id as it is otherwise.
C27_LicenseMapping ==
    parse_pc = "get_repository_license"
        => /\ license_input.license = <<>> => license_return = <<"none">>
           /\ (license_input.license # <<>> /\ license_input.license[1].spdx_id = <<>>)
                => license_return = <<"unrecognized">>
           /\ (license_input.license # <<>> /\ license_input.license[1].spdx_id # <<>>)
                => license_return = license_input.license[1].spdx_id[1]

C27_Witness ==
    /\ parse_pc = "get_repository_license"
    /\ license_input.license = <<[spdx_id |-> <<>>]>>
    /\ license_return = <<"unrecognized">>


(***************************************************************************)
(* The claims about process_library_manager_index, checked under SpecIndex.*)
(***************************************************************************)
\* C32: when the request repos/<owner>/<name> for an entry of the Library
\* Manager index is answered with an HTTP error (404 for a deleted
\* repository), process_library_manager_index adds no row for the entry and
\* goes on with the next entry
C32_MissingRepositoryIsSkipped ==
    [][index_pc = "loop" /\ index_response' = "HTTPError"
         => /\ table' = table
            /\ index_pc' = "loop"
            /\ libraries' = Tail(libraries)]_vars


(***************************************************************************)
(* The claim about the requests, checked under SpecRequest.                *)
(***************************************************************************)
\* C35: a request that carries the Authorization header is a request for a
\* URL that, normalised, starts with https://api.github.com; a request to
\* another host carries none, with or without a token configured.
C35_TokenOnlyToApi ==
    sent # <<>>
        => ((\E h \in sent[1].headers : h.name = "Authorization")
              => /\ sent[1].url.scheme = "https"
                 /\ sent[1].url.host = "api.github.com")

\* a token is configured and get_json_from_url requested a file of the raw
\* file host, whose path normalize_url changed, with no Authorization header
C35_Witness ==
    /\ github_token # <<>>
    /\ sent # <<>>
    /\ sent[1].by = "get_json_from_url"
    /\ sent[1].url.host = "raw.githubusercontent.com"
    /\ sent[1].url.path = <<"/", "name", "%20", "name">>
    /\ \A h \in sent[1].headers : h.name # "Authorization"

=============================================================================
